---- MODULE Spec2Model ----
(***************************************************************************)
(* Document signing back end: the signing state machine and transactional  *)
(* commit (signer.service.js, document.service.js), the signer share-token *)
(* middleware (resolveSignerToken.js) and the per-entity audit hash chain  *)
(* (createAuditLog / verifyAuditLogChain).                                 *)
(*                                                                         *)
(* Database model: every handler that opens a sequelize transaction keeps  *)
(* its writes in a private buffer until commit; reads inside a transaction *)
(* see the committed rows plus the transaction's own writes; an UPDATE of  *)
(* a row that another open transaction has updated waits for it.  File     *)
(* writes are immediate and are not undone by a rollback.                  *)
(***************************************************************************)
EXTENDS Integers, Sequences, FiniteSets, TLC

\* ------------------------------------------------------------------ bounds
MaxSigners  == 2     \* signers invited to the document
MaxTime     == 1     \* last instant of the modelled clock
MaxReqs     == 2     \* signer requests (/sign/:token/...) that arrive
MaxOwnerOps == 1     \* cancel / expire / PAdES calls of the owner
MaxOtpReqs  == 3     \* signer requests to /sign/:token/otp/start and /otp/verify
MaxAuthOps  == 3     \* login / switch-tenant / refresh calls
MaxTeamReqs == 2     \* register / invite requests
MaxGateDocs == 2     \* uploads while subscriptions change
MaxRoleDocs == 1     \* uploads behind roleGuard
MaxSessions == 3     \* rows of the Sessions table
MaxRefreshReqs == 2  \* concurrent /auth/refresh requests
MaxResetCodes == 2   \* OtpCodes rows of forgot-password
MaxUploads  == 2     \* concurrent POST /documents requests

\* --------------------------------------------------------------- universes
Docs        == {"d1"}
Tenants     == {"T1", "T2"}
Reqs        == 1..MaxReqs
IdStr       == <<"s1", "s2", "s3", "s4">>
SignerIds   == {IdStr[i] : i \in 1..MaxSigners}
OwnerId     == "owner"
\* User.tenantId of the owner: the personal tenant
OwnerTenant == "T1"
\* `document.deadlineAt || now + 30 days`: 30 days lie beyond the modelled clock
ThirtyDays  == MaxTime + 1

Null == <<>>
Some(x) == <<x>>

\* crypto.createHash('sha256').update(x).digest('hex'), collision free
SHA256(x) == <<"sha256", x>>

\* --------------------------------------------------------------- variables
VARIABLES
  clock,        \* new Date()
  documents,    \* Documents table: id -> row
  signers,      \* Signers table: id -> row
  shareTokens,  \* ShareTokens table: set of rows
  certificates, \* Certificates table: set of rows (documentId unique)
  auditLog,     \* AuditLogs table: committed rows in insertion order
  files,        \* uploads/ directory: storage key -> bytes
  stampRuns,    \* per document: executions of the finalization block of commitSignature
  ownerOps,     \* cancel / expire / PAdES calls made so far
  reqs,         \* signer requests (/sign/:token/...), numbered as they arrive
  tamper,       \* what was changed in the AuditLogs table behind the application
  otpCodes,     \* OtpCodes table: rows in insertion order, live until destroyed
  otpReqs,      \* signer requests to the OTP routes, numbered as they arrive
  members,      \* TenantMembers table: <<tenantId, userId>> -> row
  sessions,     \* Sessions table: rows in insertion order
  held,         \* raw refresh tokens handed out to clients
  spent,        \* raw refresh tokens a refresh has succeeded with
  authOps,      \* login / switch-tenant / refresh calls made so far
  authLast,     \* the last answer of the auth service
  tenantRows,   \* Tenants table: id -> row (planId, subscriptionStatus)
  userRows,     \* Users table of the team routes: rows in insertion order
  memberRows,   \* TenantMembers table of the team routes: rows in insertion order
  teamReqs,     \* register / invite requests, numbered as they arrive
  docLast,      \* the last answer of the document routes
  folders,      \* Folders table: id -> row (tenantId, parentId)
  folderOf,     \* Documents.folderId of the documents that were moved: id -> folder or null
  refreshReqs,  \* /auth/refresh requests taken step by step, numbered as they arrive
  passwordHashes, \* Users.passwordHash: user id -> hash
  resetCodes,   \* OtpCodes rows of context PASSWORD_RESET, in insertion order
  uploads       \* POST /documents requests taken step by step, numbered as they arrive

\* tables and requests of the OTP routes, of the auth service, and the record
\* of a change made directly in storage
moreVars == <<folders, folderOf, refreshReqs, passwordHashes, resetCodes, uploads>>
teamVars == <<tenantRows, userRows, memberRows, teamReqs, docLast, moreVars>>
auxVars == <<tamper, otpCodes, otpReqs, members, sessions, held, spent, authOps, authLast,
             teamVars>>

vars == <<clock, documents, signers, shareTokens, certificates, auditLog, files,
          stampRuns, ownerOps, reqs, auxVars>>

\* ------------------------------------------------------------ storage keys
\* uploads/{tenantId}/{docId}{ext}, ext = path.extname(file.originalname)
StorageKey(d, ext) == [doc |-> d, ext |-> ext, sfx |-> <<>>]

\* storageKey.replace(/(\.[\w\d_-]+)$/i, '-sfx$1'): a key without an
\* extension does not match and is returned unchanged
ReplaceExt(key, s) == IF key.ext THEN [key EXCEPT !.sfx = Append(@, s)] ELSE key

\* ---------------------------------------------------------------- requests
IdleReq == [pc |-> "idle", route |-> "none", resp |-> "none",
            token |-> <<"token", "none">>, signerId |-> "s1", docId |-> "d1", ts |-> 0,
            document |-> Null, signer |-> Null,
            txSigner |-> Null, txAudit |-> <<>>, txDoc |-> Null, txCert |-> Null,
            allSigned |-> FALSE]

InTx(r) == reqs[r].pc \in {"begun", "checked"}

\* row locks held by open transactions
SignerLocked(s) == \E r \in Reqs : InTx(r) /\ reqs[r].txSigner # Null /\ reqs[r].signerId = s
DocLocked(d)    == \E r \in Reqs : InTx(r) /\ reqs[r].txDoc # Null /\ reqs[r].docId = d

\* an OTP request that has not arrived; rec is the OtpCode row it found (0: none),
\* replay says that the submitted code had already been accepted for the signer
\* when the request arrived
OtpReqs == 1..MaxOtpReqs
IdleOtpReq == [pc |-> "idle", op |-> "none", signerId |-> "s1", docId |-> "d1",
               code |-> <<"otp", 0>>, rec |-> 0, resp |-> "none", replay |-> FALSE]

\* a refresh token (JWT): the payload that jwt.sign signs
NoJwt == [userId |-> "none", tenantId |-> "none", iat |-> 0]
NoAnswer == [op |-> "none", resp |-> "none", userId |-> "none", tenantId |-> "none",
             role |-> "none"]
AuthNone == [op |-> "none", resp |-> "none", userId |-> "none", target |-> "none",
             tenantId |-> "none", role |-> "none", presented |-> NoJwt, refresh |-> NoJwt,
             prev |-> NoAnswer]

\* a request that has not arrived yet
IdleRefreshReq == [pc |-> "idle", presented |-> NoJwt, session |-> 0, overlaps |-> FALSE,
                   resp |-> "none", refresh |-> NoJwt]
IdleUpload == [pc |-> "idle", userId |-> "none", tenantId |-> "none", resp |-> "none"]

\* the registered accounts: u1 owns tenant T1, u2 owns tenant T2 and is the
\* platform's super admin
AuthUsers == {"u1", "u2"}
UserRow(u) ==
  [id |-> u, email |-> <<"mail", u>>, passwordHash |-> <<"bcrypt", <<"pw", u>>>>,
   tenantId |-> IF u = "u1" THEN "T1" ELSE "T2",
   role |-> IF u = "u1" THEN "ADMIN" ELSE "SUPER_ADMIN"]

\* the Users rows of the registered accounts, and the TenantMember rows that
\* registerUser created with them
AccountIds == <<"u1", "u2", "u3", "u4">>
RegisteredUsers ==
  [i \in 1..2 |-> [id |-> AccountIds[i], email |-> UserRow(AccountIds[i]).email,
                   cpf |-> <<"cpf", AccountIds[i]>>,
                   tenantId |-> UserRow(AccountIds[i]).tenantId,
                   role |-> UserRow(AccountIds[i]).role, status |-> "ACTIVE"]]
RegisteredMemberRows ==
  [i \in 1..2 |-> [tenantId |-> UserRow(AccountIds[i]).tenantId,
                   email |-> UserRow(AccountIds[i]).email, userId |-> AccountIds[i],
                   role |-> "ADMIN", status |-> "ACTIVE"]]

\* a register / invite request that has not arrived
TeamReqs == 1..MaxTeamReqs
IdleTeamReq == [pc |-> "idle", op |-> "none", resp |-> "none", email |-> <<"mail", "none">>,
                cpf |-> <<"cpf", "none">>, tenantId |-> "none", userId |-> "none",
                role |-> "none", by |-> "none"]

\* the document routes have answered nothing yet
NoDocAnswer == [n |-> 0, op |-> "none", user |-> "none", tenantId |-> "none",
                docId |-> "none", status |-> "none", body |-> Null]

\* registerUser: the TenantMember row of the owner in the tenant created with
\* the account
RegisteredMembers ==
  [k \in {<<UserRow(u).tenantId, u>> : u \in AuthUsers} |->
     [role |-> "ADMIN", status |-> "ACTIVE"]]

AuxInit ==
  /\ tamper = Null
  /\ otpCodes = <<>>
  /\ otpReqs = [r \in OtpReqs |-> IdleOtpReq]
  /\ members = RegisteredMembers
  /\ tenantRows = [t \in Tenants |-> [planId |-> "gratuito", subscriptionStatus |-> Null]]
  /\ userRows = RegisteredUsers
  /\ memberRows = RegisteredMemberRows
  /\ teamReqs = [r \in TeamReqs |-> IdleTeamReq]
  /\ docLast = NoDocAnswer
  /\ folders = <<>>
  /\ folderOf = <<>>
  /\ refreshReqs = [r \in 1..MaxRefreshReqs |-> IdleRefreshReq]
  /\ passwordHashes = [u \in AuthUsers |-> UserRow(u).passwordHash]
  /\ resetCodes = <<>>
  /\ uploads = [r \in 1..MaxUploads |-> IdleUpload]
  /\ sessions = <<>>
  /\ held = {}
  /\ spent = {}
  /\ authOps = 0
  /\ authLast = AuthNone

Init ==
  /\ clock = 0
  /\ documents = <<>>
  /\ signers = <<>>
  /\ shareTokens = {}
  /\ certificates = {}
  /\ auditLog = <<>>
  /\ files = <<>>
  /\ stampRuns = [d \in Docs |-> 0]
  /\ ownerOps = 0
  /\ reqs = [r \in Reqs |-> IdleReq]
  /\ AuxInit

\* ------------------------------------------------------------- audit chain
\* A JSON object is a sequence of entries; u marks a property whose value is
\* `undefined`, v is <<x>> for a value and <<>> for null.
Entry(k, x)   == [k |-> k, u |-> FALSE, v |-> <<x>>]
\* a property taken from an optional input: undefined when the input is absent
OptEntry(k, o) == [k |-> k, u |-> (o = Null), v |-> o]
\* a property read back from a stored column: null when the column is NULL
ColEntry(k, c) == [k |-> k, u |-> FALSE, v |-> c]

\* { ...obj, ...p }: a key already present keeps its position and takes the new value
RECURSIVE Spread(_, _)
Spread(obj, p) ==
  IF p = <<>> THEN obj
  ELSE LET h == Head(p)
           hit == {i \in DOMAIN obj : obj[i].k = h.k}
       IN  Spread(IF hit = {} THEN Append(obj, h)
                  ELSE [i \in DOMAIN obj |-> IF i \in hit THEN h ELSE obj[i]],
                  Tail(p))

\* JSON.stringify: properties whose value is undefined are omitted
JSONstringify(obj) == SelectSeq(obj, LAMBDA en : ~en.u)

\* sha256 of the literal 'genesis_block_for_entity'
Genesis == SHA256(<<"genesis_block_for_entity">>)

\* createAuditLog: the object that is hashed
payloadToHash(e) ==
  Spread(<<Entry("actorKind", e.actorKind), OptEntry("actorId", e.actorId),
           Entry("entityType", e.entityType), Entry("entityId", e.entityId),
           Entry("action", e.action), OptEntry("ip", e.ip),
           OptEntry("userAgent", e.userAgent)>>, e.payload)

\* createAuditLog: AuditLog.findOne({where: {entityId}, order: createdAt DESC}).
\* Rows of the entity with the greatest createdAt; 0 stands for "no row".
\* Several rows with the same createdAt leave the choice to the database.
LastEvents(view, entityId) ==
  LET mine == {i \in DOMAIN view : view[i].entityId = entityId}
  IN  IF mine = {} THEN {0}
      ELSE {i \in mine : \A j \in mine : view[j].createdAt <= view[i].createdAt}

PrevHash(view, i) == IF i = 0 THEN Genesis ELSE view[i].eventHash

\* createAuditLog: the row built from logData.  hashTs is the `new Date()` that
\* is hashed, createdAt the `new Date()` sequelize takes when it inserts the row.
\* Columns of undefined inputs are stored as NULL; payloadJson is serialised
\* as JSON.
createAuditLog(e, prev, hashTs, createdAt) ==
  [actorKind |-> e.actorKind, actorId |-> e.actorId, entityType |-> e.entityType,
   entityId |-> e.entityId, action |-> e.action, ip |-> e.ip, userAgent |-> e.userAgent,
   payloadJson |-> JSONstringify(e.payload),
   prevEventHash |-> prev,
   eventHash |-> SHA256(<<prev, JSONstringify(payloadToHash(e)), hashTs>>),
   createdAt |-> createdAt]

\* AuditLog.eventHash is unique: an insert of a hash that is present fails
HashTaken(view, row) == \E i \in DOMAIN view : view[i].eventHash = row.eventHash

\* the clock may or may not advance between two readings of it; time passes
\* while handlers run
Ticks == {t \in {0, 1} : clock + t <= MaxTime}

Event(kind, actor, etype, eid, action, ip, ua, payload) ==
  [actorKind |-> kind, actorId |-> actor, entityType |-> etype, entityId |-> eid,
   action |-> action, ip |-> ip, userAgent |-> ua, payload |-> payload]

\* ----------------------------------------------------------- owner actions
\* createDocumentAndHandleUpload: the file is moved to its permanent key, the
\* row becomes READY with its sha256, STORAGE_UPLOADED is appended.
Upload(d, tenant, ext, deadline) ==
  /\ d \notin DOMAIN documents
  /\ \E dt \in Ticks, last \in LastEvents(auditLog, d) :
       LET key   == StorageKey(d, ext)
           bytes == <<"pdf", d>>
           sha   == SHA256(bytes)
           e     == Event("USER", Some(OwnerId), "DOCUMENT", d, "STORAGE_UPLOADED",
                          Some("SYSTEM"), Some("SYSTEM"),
                          <<Entry("fileName", "contract"), Entry("sha256", sha)>>)
           row   == createAuditLog(e, PrevHash(auditLog, last), clock, clock + dt)
       IN  /\ documents' = documents @@ (d :> [status |-> "READY", tenantId |-> tenant,
                                              storageKey |-> key, sha256 |-> sha,
                                              deadlineAt |-> deadline])
           /\ files' = files @@ (key :> bytes)
           /\ auditLog' = Append(auditLog, row)
           /\ clock' = clock + dt
  /\ UNCHANGED <<auxVars, signers, shareTokens, certificates, stampRuns, ownerOps, reqs>>

\* crypto.randomBytes(32).toString('base64url'): one fresh token per signer
Token(s) == <<"token", s>>

NewSigner(d) ==
  [documentId |-> d, status |-> "PENDING", signedAt |-> Null, signatureHash |-> Null,
   signatureArtefactPath |-> Null, signatureUuid |-> Null]

\* a ShareToken column that keeps the token as it was generated
shareTokenHash_Raw(token) == token

\* tokenHash = crypto.createHash('sha256').update(token).digest('hex')
shareTokenHash(token) == SHA256(token)

\* addSignersToDocument with one signer in the list: Signer and ShareToken rows
\* are created and INVITED is appended to the signer's chain.  The status of
\* the document is not looked at.
addSignersToDocument(d) ==
  /\ d \in DOMAIN documents
  /\ Cardinality(DOMAIN signers) < MaxSigners
  /\ \E dt \in Ticks :
       LET s   == IdStr[Cardinality(DOMAIN signers) + 1]
           doc == documents[d]
           exp == IF doc.deadlineAt # Null THEN doc.deadlineAt[1] ELSE clock + ThirtyDays
           e   == Event("USER", Some(OwnerId), "SIGNER", s, "INVITED",
                        Some("SYSTEM"), Some("SYSTEM"),
                        <<Entry("documentId", d), Entry("recipient", s)>>)
       IN  \E last \in LastEvents(auditLog, s) :
             LET row == createAuditLog(e, PrevHash(auditLog, last), clock, clock + dt)
             IN  /\ signers' = signers @@ (s :> NewSigner(d))
                 /\ shareTokens' = shareTokens \cup
                       {[tokenHash |-> shareTokenHash(Token(s)), signerId |-> s,
                         documentId |-> d, expiresAt |-> exp]}
                 /\ auditLog' = Append(auditLog, row)
                 /\ clock' = clock + dt
  /\ UNCHANGED <<auxVars, documents, certificates, files, stampRuns, ownerOps, reqs>>

\* deadlineAt of the upload: none, or the instant of the upload itself
Deadlines == {Null, Some(0)}


\* changeDocumentStatus (cancelDocument / expireDocument): the status is
\* written whatever the current status is, and STATUS_CHANGED is appended.
changeDocumentStatus(d, newStatus) ==
  /\ d \in DOMAIN documents
  /\ ownerOps < MaxOwnerOps
  /\ documents[d].status # newStatus => ~DocLocked(d)
  /\ \E dt \in Ticks, last \in LastEvents(auditLog, d) :
       LET e   == Event("USER", Some(OwnerId), "DOCUMENT", d, "STATUS_CHANGED",
                        Some("SYSTEM"), Some("SYSTEM"), <<Entry("newStatus", newStatus)>>)
           row == createAuditLog(e, PrevHash(auditLog, last), clock, clock + dt)
       IN  /\ clock' = clock + dt
           /\ IF HashTaken(auditLog, row)
              THEN UNCHANGED <<documents, auditLog>>
              ELSE /\ documents' = [documents EXCEPT ![d].status = newStatus]
                   /\ auditLog' = Append(auditLog, row)
  /\ ownerOps' = ownerOps + 1
  /\ UNCHANGED <<auxVars, signers, shareTokens, certificates, files, stampRuns, reqs>>

\* what the stamping reads of the signers: signedAt and signatureUuid
StampData(rows) == [s \in DOMAIN rows |-> <<rows[s].signedAt, rows[s].signatureUuid>>]

SignersOf(rows, d) == {s \in DOMAIN rows : rows[s].documentId = d}
Restrict(f, S) == [x \in S |-> f[x]]

\* getDocumentDownloadUrl(document.id, owner): the document is looked up under
\* the owner's own tenant and the call throws when it is not found there
DownloadUrlFound(d) == d \in DOMAIN documents /\ documents[d].tenantId = OwnerTenant

\* finalizeWithPades: stamps the current file under a '-pades' key, reseals
\* the document as SIGNED, appends PADES_SIGNED and issues the certificate
\* when there is none.  A failure after the file write rolls the rows back.
finalizeWithPades(d) ==
  /\ d \in DOMAIN documents
  /\ ownerOps < MaxOwnerOps
  /\ ~DocLocked(d)
  /\ documents[d].storageKey \in DOMAIN files
  /\ \E dt \in Ticks :
       LET doc    == documents[d]
           buf    == <<"pades", files[doc.storageKey],
                       StampData(Restrict(signers, SignersOf(signers, d)))>>
           newKey == ReplaceExt(doc.storageKey, "pades")
           newSha == SHA256(buf)
           e1     == Event("USER", Some(OwnerId), "DOCUMENT", d, "PADES_SIGNED",
                           Some("SYSTEM"), Some("SYSTEM"), <<Entry("newSha256", newSha)>>)
           e2     == Event("SYSTEM", Null, "DOCUMENT", d, "CERTIFICATE_ISSUED",
                           Null, Null, <<>>)
           hasCert == \E c \in certificates : c.documentId = d
       IN  \E l1 \in LastEvents(auditLog, d) :
             LET row1 == createAuditLog(e1, PrevHash(auditLog, l1), clock, clock + dt)
                 log1 == Append(auditLog, row1)
             IN  \E l2 \in LastEvents(log1, d) :
                   LET row2 == createAuditLog(e2, PrevHash(log1, l2), clock + dt, clock + dt)
                       log2 == IF hasCert THEN log1 ELSE Append(log1, row2)
                       fail == \/ HashTaken(auditLog, row1)
                               \/ ~hasCert /\ HashTaken(log1, row2)
                               \/ ~DownloadUrlFound(d)
                   IN  /\ files' = IF newKey \in DOMAIN files
                                   THEN [files EXCEPT ![newKey] = buf]
                                   ELSE files @@ (newKey :> buf)
                       /\ clock' = clock + dt
                       /\ IF fail
                          THEN UNCHANGED <<documents, auditLog, certificates>>
                          ELSE /\ documents' = [documents EXCEPT
                                      ![d].storageKey = newKey, ![d].sha256 = newSha,
                                      ![d].status = "SIGNED"]
                               /\ auditLog' = log2
                               /\ certificates' = IF hasCert THEN certificates
                                     ELSE certificates \cup
                                          {[documentId |-> d,
                                            sha256 |-> SHA256(<<"CERT-", d, clock + dt>>),
                                            issuedAt |-> clock + dt]}
  /\ ownerOps' = ownerOps + 1
  /\ UNCHANGED <<auxVars, signers, shareTokens, stampRuns, reqs>>

\* ---------------------------------------------------------- signer requests
\* resolveSignerToken without the check of the document's status
resolveSignerToken_NoDocCheck(tok) ==
  LET rows == {st \in shareTokens : st.tokenHash = SHA256(tok)}
  IN  IF rows = {} THEN "404"
      ELSE LET st == CHOOSE x \in rows : TRUE
           IN  IF clock > st.expiresAt THEN "403_expired"
               ELSE IF signers[st.signerId].status \in {"SIGNED", "DECLINED"}
                    THEN "403_signer"
               ELSE "next"

\* resolveSignerToken: the verdict of the middleware on a raw token
resolveSignerToken(tok) ==
  LET rows == {st \in shareTokens : st.tokenHash = SHA256(tok)}
  IN  IF rows = {} THEN "404"
      ELSE LET st == CHOOSE x \in rows : TRUE
           IN  IF clock > st.expiresAt THEN "403_expired"
               ELSE IF signers[st.signerId].status \in {"SIGNED", "DECLINED"}
                    THEN "403_signer"
               ELSE IF documents[st.documentId].status \in {"CANCELLED", "EXPIRED", "SIGNED"}
                    THEN "403_document"
               ELSE "next"

TokenRow(tok) == CHOOSE st \in shareTokens : st.tokenHash = SHA256(tok)

\* the request has been answered
Done(r, resp) == [IdleReq EXCEPT !.pc = "done", !.resp = resp]

\* A request /sign/:token[/commit] arrives: the middleware either answers it
\* or attaches the rows it has read (req.document, req.signer) and calls next().
Resolve(r, tok, route) ==
  /\ reqs[r].pc = "idle"
  /\ r > 1 => reqs[r - 1].pc # "idle"
  /\ LET verdict == resolveSignerToken(tok)
     IN  IF verdict # "next"
         THEN reqs' = [reqs EXCEPT ![r] = [Done(r, verdict) EXCEPT !.token = tok]]
         ELSE LET st == TokenRow(tok)
              IN  reqs' = [reqs EXCEPT ![r] =
                        [IdleReq EXCEPT !.pc = "resolved", !.route = route,
                                        !.token = tok, !.signerId = st.signerId, !.docId = st.documentId,
                                        !.document = Some(documents[st.documentId]),
                                        !.signer = Some(signers[st.signerId])]]
  /\ UNCHANGED <<auxVars, clock, documents, signers, shareTokens, certificates, auditLog, files,
                 stampRuns, ownerOps>>


\* getSignerSummary: a signer read as PENDING is saved as VIEWED and VIEWED is
\* appended to the document's chain, neither inside a transaction; then the
\* download URL is built.  The append is a second statement after the save:
\* when it is rejected (the unique eventHash, or the database failing) the
\* saved status stays.  In the handlers that run inside a transaction such a
\* failure rolls everything back and leaves the rows as they were.
getSignerSummary(r) ==
  /\ reqs[r].pc = "resolved" /\ reqs[r].route = "summary"
  /\ LET s == reqs[r].signerId
         d == reqs[r].docId
         first == reqs[r].signer[1].status = "PENDING"
     IN  IF ~first
         THEN /\ reqs' = [reqs EXCEPT ![r] =
                    Done(r, IF DownloadUrlFound(d) THEN "200" ELSE "500")]
              /\ UNCHANGED <<clock, signers, auditLog>>
         ELSE /\ ~SignerLocked(s)
              /\ \E dt \in Ticks, last \in LastEvents(auditLog, d), rejected \in BOOLEAN :
                   LET e   == Event("SIGNER", Some(s), "DOCUMENT", d, "VIEWED",
                                    Some("ip"), Some("ua"), <<>>)
                       row == createAuditLog(e, PrevHash(auditLog, last), clock, clock + dt)
                   IN  /\ signers' = [signers EXCEPT ![s].status = "VIEWED"]
                       /\ clock' = clock + dt
                       /\ IF HashTaken(auditLog, row) \/ rejected
                          THEN /\ UNCHANGED auditLog
                               /\ reqs' = [reqs EXCEPT ![r] = Done(r, "500")]
                          ELSE /\ auditLog' = Append(auditLog, row)
                               /\ reqs' = [reqs EXCEPT ![r] =
                                     Done(r, IF DownloadUrlFound(d) THEN "200" ELSE "500")]
  /\ UNCHANGED <<auxVars, documents, shareTokens, certificates, files, stampRuns, ownerOps>>

\* the rows a transaction of request r reads
TxAuditView(r) == auditLog \o reqs[r].txAudit
TxSigners(r) ==
  IF reqs[r].txSigner = Null THEN signers
  ELSE [signers EXCEPT ![reqs[r].signerId] = reqs[r].txSigner[1]]

\* commitSignature, steps 1-5: the transaction starts, the signature hash is
\* taken over the attached document and signer, the signer is saved as SIGNED
\* and SIGNED is appended.  Neither status is looked at.
CommitBegin(r) ==
  /\ reqs[r].pc = "resolved" /\ reqs[r].route = "commit"
  /\ ~SignerLocked(reqs[r].signerId)
  /\ \E dt \in Ticks, last \in LastEvents(auditLog, reqs[r].docId) :
       LET s    == reqs[r].signerId
           d    == reqs[r].docId
           doc  == reqs[r].document[1]
           sigH == SHA256(<<doc.sha256, s, clock, "fp">>)
           e    == Event("SIGNER", Some(s), "DOCUMENT", d, "SIGNED", Some("ip"), Some("ua"),
                         <<Entry("signatureHash", sigH), Entry("artefactPath", s),
                           Entry("shortCode", <<"first6", sigH>>),
                           Entry("clientFingerprint", "fp"), Entry("ip", "ip")>>)
           row  == createAuditLog(e, PrevHash(auditLog, last), clock, clock + dt)
           upd  == [reqs[r].signer[1] EXCEPT
                      !.status = "SIGNED", !.signedAt = Some(clock),
                      !.signatureHash = Some(sigH), !.signatureArtefactPath = Some(s),
                      !.signatureUuid = Some(r)]
       IN  /\ clock' = clock + dt
           /\ IF HashTaken(auditLog, row)
              THEN reqs' = [reqs EXCEPT ![r] = Done(r, "500")]
              ELSE reqs' = [reqs EXCEPT ![r].pc = "begun", ![r].ts = clock,
                                        ![r].txSigner = Some(upd),
                                        ![r].txAudit = <<row>>]
  /\ UNCHANGED <<auxVars, documents, signers, shareTokens, certificates, auditLog, files,
                 stampRuns, ownerOps>>

\* commitSignature, step 6: the signers of the document are read again inside
\* the transaction; when all are SIGNED the final PDF is stamped and written,
\* the document is resealed as SIGNED and the certificate is inserted.
CommitCheck(r) ==
  /\ reqs[r].pc = "begun"
  /\ LET s    == reqs[r].signerId
         d    == reqs[r].docId
         doc  == reqs[r].document[1]
         mine == TxSigners(r)
         inDoc == SignersOf(mine, d)
         allSigned == \A x \in inDoc : mine[x].status = "SIGNED"
     IN  IF ~allSigned
         THEN /\ reqs' = [reqs EXCEPT ![r].pc = "checked", ![r].allSigned = FALSE]
              /\ UNCHANGED <<clock, files, stampRuns>>
         ELSE /\ ~DocLocked(d)
              /\ doc.storageKey \in DOMAIN files
              /\ \E dt \in Ticks :
                   LET buf    == <<"stamped", files[doc.storageKey],
                                   StampData(Restrict(mine, inDoc))>>
                       newKey == ReplaceExt(doc.storageKey, "signed")
                       newSha == SHA256(buf)
                       e1 == Event("SYSTEM", Null, "DOCUMENT", d, "STATUS_CHANGED", Null, Null,
                                   <<Entry("newStatus", "SIGNED"), Entry("newSha256", newSha)>>)
                       e2 == Event("SYSTEM", Null, "DOCUMENT", d, "CERTIFICATE_ISSUED",
                                   Null, Null, <<>>)
                       v0 == TxAuditView(r)
                   IN  \E l1 \in LastEvents(v0, d) :
                         LET row1 == createAuditLog(e1, PrevHash(v0, l1), clock, clock + dt)
                             v1   == Append(v0, row1)
                         IN  \E l2 \in LastEvents(v1, d) :
                               LET row2 == createAuditLog(e2, PrevHash(v1, l2),
                                                          clock + dt, clock + dt)
                                   fail == \/ HashTaken(v0, row1)
                                           \/ \E c \in certificates : c.documentId = d
                                           \/ HashTaken(v1, row2)
                                           \/ ~DownloadUrlFound(d)
                               IN  /\ files' = IF newKey \in DOMAIN files
                                               THEN [files EXCEPT ![newKey] = buf]
                                               ELSE files @@ (newKey :> buf)
                                   /\ stampRuns' = [stampRuns EXCEPT ![d] = @ + 1]
                                   /\ clock' = clock + dt
                                   /\ IF fail
                                      THEN reqs' = [reqs EXCEPT ![r] = Done(r, "500")]
                                      ELSE reqs' = [reqs EXCEPT
                                             ![r].pc = "checked", ![r].allSigned = TRUE,
                                             ![r].txDoc = Some([status |-> "SIGNED",
                                                                storageKey |-> newKey,
                                                                sha256 |-> newSha]),
                                             ![r].txAudit = @ \o <<row1, row2>>,
                                             ![r].txCert = Some(
                                                [documentId |-> d,
                                                 sha256 |-> SHA256(<<"CERT-", d, reqs[r].ts>>),
                                                 issuedAt |-> clock + dt])]
  /\ UNCHANGED <<auxVars, documents, signers, shareTokens, certificates, auditLog, ownerOps>>

\* commitSignature: transaction.commit() makes the buffered writes visible
CommitEnd(r) ==
  /\ reqs[r].pc = "checked"
  /\ LET s == reqs[r].signerId
         d == reqs[r].docId
     IN  /\ signers' = [signers EXCEPT ![s] = reqs[r].txSigner[1]]
         /\ auditLog' = auditLog \o reqs[r].txAudit
         /\ documents' = IF reqs[r].txDoc = Null THEN documents
                         ELSE [documents EXCEPT
                                 ![d].status = reqs[r].txDoc[1].status,
                                 ![d].storageKey = reqs[r].txDoc[1].storageKey,
                                 ![d].sha256 = reqs[r].txDoc[1].sha256]
         /\ certificates' = IF reqs[r].txCert = Null THEN certificates
                            ELSE certificates \cup {reqs[r].txCert[1]}
         /\ reqs' = [reqs EXCEPT ![r] = Done(r, "200")]
  /\ UNCHANGED <<auxVars, clock, shareTokens, files, stampRuns, ownerOps>>

\* the uploaded file is named with an extension ('contract.pdf')
Exts == {TRUE}

\* ------------------------------------------------------------ verification
\* verifyAuditLogChain: the hash recomputed from a stored row
RecomputeHash(row) ==
  SHA256(<<row.prevEventHash,
           JSONstringify(Spread(
             <<ColEntry("actorKind", <<row.actorKind>>), ColEntry("actorId", row.actorId),
               ColEntry("entityType", <<row.entityType>>),
               ColEntry("entityId", <<row.entityId>>),
               ColEntry("action", <<row.action>>), ColEntry("ip", row.ip),
               ColEntry("userAgent", row.userAgent)>>, row.payloadJson)),
           row.createdAt>>)

\* verifyAuditLogChain: the rows collected for a document, as indexes of auditLog
Collected(d) ==
  {i \in DOMAIN auditLog :
     \/ auditLog[i].entityType = "DOCUMENT" /\ auditLog[i].entityId = d
     \/ auditLog[i].entityType = "SIGNER" /\ auditLog[i].entityId \in SignersOf(signers, d)}

\* order: [['createdAt', 'ASC']]: every arrangement of the collected rows in
\* which createdAt never decreases
ChainOrders(d) ==
  LET S == Collected(d)
      n == Cardinality(S)
  IN  {f \in [1..n -> S] :
         /\ \A i, j \in 1..n : i # j => f[i] # f[j]
         /\ \A i \in 1..n : i < n => auditLog[f[i]].createdAt <= auditLog[f[i + 1]].createdAt}

\* verifyAuditLogChain: the walk over the ordered rows, from position i on
RECURSIVE VerifyFrom(_, _)
VerifyFrom(ord, i) ==
  IF i > Len(ord)
  THEN [isValid |-> TRUE, count |-> Len(ord), brokenEventId |-> 0, reason |-> "none"]
  ELSE LET cur == auditLog[ord[i]]
       IN  IF i > 1 /\ cur.prevEventHash # auditLog[ord[i - 1]].eventHash
           THEN [isValid |-> FALSE, count |-> 0, brokenEventId |-> ord[i],
                 reason |-> "Broken Link"]
           ELSE IF RecomputeHash(cur) # cur.eventHash
           THEN [isValid |-> FALSE, count |-> 0, brokenEventId |-> ord[i],
                 reason |-> "Hash Mismatch"]
           ELSE VerifyFrom(ord, i + 1)

verifyAuditLogChain(ord) == VerifyFrom(ord, 1)

RawTokens == {Token(s) : s \in SignerIds} \cup {Token("forged")}

Next ==
  \/ \E d \in Docs, t \in Tenants, ext \in Exts, dl \in Deadlines : Upload(d, t, ext, dl)
  \/ \E d \in Docs : addSignersToDocument(d)
  \/ \E d \in Docs, st \in {"CANCELLED", "EXPIRED"} : changeDocumentStatus(d, st)
  \/ \E d \in Docs : finalizeWithPades(d)
  \/ \E r \in Reqs, tok \in RawTokens, route \in {"summary", "commit"} : Resolve(r, tok, route)
  \/ \E r \in Reqs : getSignerSummary(r)
  \/ \E r \in Reqs : CommitBegin(r)
  \/ \E r \in Reqs : CommitCheck(r)
  \/ \E r \in Reqs : CommitEnd(r)

Spec == Init /\ [][Next]_vars

\* ------------------------------------------------- changes made in storage
\* time passes between two requests
Tick ==
  /\ clock < MaxTime
  /\ clock' = clock + 1
  /\ UNCHANGED <<documents, signers, shareTokens, certificates, auditLog, files,
                 stampRuns, ownerOps, reqs, auxVars>>

\* the columns that createAuditLog hashes
HashedFields ==
  {"payloadJson", "action", "ip", "userAgent", "actorId", "actorKind", "entityType",
   "createdAt"}

\* a stored row with one hashed column given another value
Altered(row, field, t) ==
  CASE field = "payloadJson" -> [row EXCEPT !.payloadJson = Append(@, Entry("x", "y"))]
    [] field = "action"      -> [row EXCEPT !.action = IF @ = "DOWNLOADED" THEN "EMAILED" ELSE "DOWNLOADED"]
    [] field = "ip"          -> [row EXCEPT !.ip = Some("6.6.6.6")]
    [] field = "userAgent"   -> [row EXCEPT !.userAgent = Some("curl")]
    [] field = "actorId"     -> [row EXCEPT !.actorId = Some("mallory")]
    [] field = "actorKind"   -> [row EXCEPT !.actorKind = IF @ = "SYSTEM" THEN "USER" ELSE "SYSTEM"]
    [] field = "entityType"  -> [row EXCEPT !.entityType =
                                   IF @ = "DOCUMENT" THEN "SIGNER" ELSE "DOCUMENT"]
    [] field = "createdAt"   -> [row EXCEPT !.createdAt = t]

\* what verifyAuditLogChain answers for document d on the rows as stored now
VerifiesValid(d) == \A ord \in ChainOrders(d) : verifyAuditLogChain(ord).isValid

TamperFrame ==
  UNCHANGED <<clock, documents, signers, shareTokens, certificates, files, stampRuns,
              ownerOps, reqs, otpCodes, otpReqs, members, sessions, held, spent,
              authOps, authLast, teamVars>>

\* UPDATE "AuditLogs" SET <field> = ... WHERE id = i, issued outside the application
AlterRow(d, i, field, t) ==
  /\ tamper = Null
  /\ i \in Collected(d)
  /\ Altered(auditLog[i], field, t) # auditLog[i]
  /\ auditLog' = [auditLog EXCEPT ![i] = Altered(@, field, t)]
  /\ tamper' = Some([kind |-> "alter", id |-> i, field |-> field, doc |-> d,
                     entity |-> auditLog[i].entityId, wasValid |-> VerifiesValid(d)])
  /\ TamperFrame

\* DELETE FROM "AuditLogs" WHERE id = i, issued outside the application
DeleteRow(d, i) ==
  /\ tamper = Null
  /\ i \in Collected(d)
  /\ auditLog' = SubSeq(auditLog, 1, i - 1) \o SubSeq(auditLog, i + 1, Len(auditLog))
  /\ tamper' = Some([kind |-> "delete", id |-> i, field |-> "row", doc |-> d,
                     entity |-> auditLog[i].entityId, wasValid |-> VerifiesValid(d)])
  /\ TamperFrame

\* two rows of one entity change places in its chain: their createdAt are exchanged
SwapRows(d, i, j) ==
  /\ tamper = Null
  /\ i \in Collected(d) /\ j \in Collected(d) /\ i < j
  /\ auditLog[i].entityId = auditLog[j].entityId
  /\ auditLog[i].createdAt # auditLog[j].createdAt
  /\ auditLog' = [auditLog EXCEPT ![i].createdAt = auditLog[j].createdAt,
                                  ![j].createdAt = auditLog[i].createdAt]
  /\ tamper' = Some([kind |-> "swap", id |-> i, field |-> "createdAt", doc |-> d,
                     entity |-> auditLog[i].entityId, wasValid |-> VerifiesValid(d)])
  /\ TamperFrame

\* the application runs until the change is made; the verification is then
\* asked about the rows as the change left them
NextTamper ==
  \/ \E d \in Docs, t \in Tenants, ext \in Exts, dl \in Deadlines :
       tamper = Null /\ Upload(d, t, ext, dl)
  \/ \E d \in Docs : tamper = Null /\ addSignersToDocument(d)
  \/ \E d \in Docs, st \in {"CANCELLED", "EXPIRED"} :
       tamper = Null /\ changeDocumentStatus(d, st)
  \/ tamper = Null /\ Tick
  \/ \E d \in Docs, i \in 1..Len(auditLog), f \in HashedFields, t \in 0..MaxTime :
       AlterRow(d, i, f, t)
  \/ \E d \in Docs, i \in 1..Len(auditLog) : DeleteRow(d, i)
  \/ \E d \in Docs, i, j \in 1..Len(auditLog) : SwapRows(d, i, j)

SpecTamper == Init /\ [][NextTamper]_vars

\* ------------------------------------------------------------- OTP routes
\* bcrypt.hash / bcrypt.compare over the bytes that bcrypt reads (it ignores
\* everything after the first 72 bytes of its input)
bcryptHash(bytes) == <<"bcrypt", bytes>>
bcryptCompare(bytes, hash) == hash = bcryptHash(bytes)

\* expiresAt = Date.now() + 10 minutes: shorter than one step of the clock
TenMinutes == 0

\* the signerData of the invitation: every signer has an e-mail and a phone;
\* s1 and s3 authenticate by e-mail only, the others by e-mail and WhatsApp
SignerContact(s) ==
  [email |-> <<"mail", s>>, phone |-> <<"phone", s>>,
   authChannels |-> IF s \in {"s1", "s3"} THEN <<"EMAIL">> ELSE <<"EMAIL", "WHATSAPP">>]

\* startOtpVerification: channel === 'EMAIL' ? signer.email : signer.phoneWhatsE164
RecipientOf(s, channel) ==
  IF channel = "EMAIL" THEN SignerContact(s).email ELSE SignerContact(s).phone

\* recipient.replace(/(.{2})(.*)(@|.{2})$/, "$1***$3")
Masked(recipient) == <<"masked", recipient[1]>>

\* crypto.randomInt(100000, 999999): a code not minted before
OtpValue(n) == <<"otp", n>>
OtpValues == {OtpValue(n) : n \in 1..MaxOtpReqs}

OtpFrame ==
  UNCHANGED <<documents, signers, shareTokens, certificates, files, stampRuns, ownerOps,
              reqs, tamper, members, sessions, held, spent, authOps, authLast, teamVars>>

\* startOtpVerification, the loop over the channels from the k-th on: one
\* OtpCode row and one OTP_SENT event per channel; an append that is rejected
\* ends the request and leaves what was stored before it.
RECURSIVE StartLoop(_, _, _, _, _, _, _)
StartLoop(s, k, code, codes, log, now, created) ==
  LET chans == SignerContact(s).authChannels
  IN  IF k > Len(chans) THEN {[codes |-> codes, log |-> log, ok |-> TRUE]}
      ELSE LET rcp    == RecipientOf(s, chans[k])
               codes2 == Append(codes, [recipient |-> rcp, channel |-> chans[k],
                                        codeHash |-> bcryptHash(code),
                                        expiresAt |-> now + TenMinutes, live |-> TRUE])
               e      == Event("SYSTEM", Null, "OTP", s, "OTP_SENT", Some("ip"), Some("ua"),
                               <<Entry("channel", chans[k]),
                                 Entry("recipient_masked", Masked(rcp))>>)
           IN  UNION {LET row == createAuditLog(e, PrevHash(log, l), now, created)
                      IN  IF HashTaken(log, row)
                          THEN {[codes |-> codes2, log |-> log, ok |-> FALSE]}
                          ELSE StartLoop(s, k + 1, code, codes2, Append(log, row), now, created)
                      : l \in LastEvents(log, s)}

\* POST /sign/:token/otp/start: resolveSignerToken, then startOtpVerification
startOtpVerification(r, tok) ==
  /\ otpReqs[r].pc = "idle"
  /\ r > 1 => otpReqs[r - 1].pc # "idle"
  /\ LET verdict == resolveSignerToken(tok)
     IN  IF verdict # "next"
         THEN /\ otpReqs' = [otpReqs EXCEPT ![r] =
                    [IdleOtpReq EXCEPT !.pc = "done", !.op = "start", !.resp = verdict]]
              /\ UNCHANGED <<clock, otpCodes, auditLog>>
         ELSE \E dt \in Ticks :
                LET s == TokenRow(tok).signerId
                IN  \E out \in StartLoop(s, 1, OtpValue(Len(otpCodes) + 1), otpCodes,
                                         auditLog, clock, clock + dt) :
                      /\ otpCodes' = out.codes
                      /\ auditLog' = out.log
                      /\ clock' = clock + dt
                      /\ otpReqs' = [otpReqs EXCEPT ![r] =
                            [IdleOtpReq EXCEPT !.pc = "done", !.op = "start",
                                               !.signerId = s,
                                               !.docId = TokenRow(tok).documentId,
                                               !.code = OtpValue(Len(otpCodes) + 1),
                                               !.resp = IF out.ok THEN "200" ELSE "500"]]
  /\ OtpFrame

\* verifyOtp: OtpCode.findOne({where: {recipient: [email, phone], context},
\* order: createdAt DESC}): the row inserted last among the live rows of the
\* signer's recipients (0: none)
FindOtp(s) ==
  LET mine == {i \in DOMAIN otpCodes :
                 /\ otpCodes[i].live
                 /\ otpCodes[i].recipient \in {SignerContact(s).email, SignerContact(s).phone}}
  IN  IF mine = {} THEN 0 ELSE CHOOSE i \in mine : \A j \in mine : j <= i

\* POST /sign/:token/otp/verify: resolveSignerToken, then the findOne of verifyOtp
verifyOtpFind(r, tok, code) ==
  /\ otpReqs[r].pc = "idle"
  /\ r > 1 => otpReqs[r - 1].pc # "idle"
  /\ LET verdict == resolveSignerToken(tok)
     IN  IF verdict # "next"
         THEN otpReqs' = [otpReqs EXCEPT ![r] =
                   [IdleOtpReq EXCEPT !.pc = "done", !.op = "verify", !.code = code,
                                      !.resp = verdict]]
         ELSE LET s == TokenRow(tok).signerId
              IN  otpReqs' = [otpReqs EXCEPT ![r] =
                     [IdleOtpReq EXCEPT
                        !.pc = "found", !.op = "verify", !.signerId = s,
                        !.docId = TokenRow(tok).documentId, !.code = code,
                        !.rec = FindOtp(s),
                        !.replay = \E q \in OtpReqs :
                                      /\ otpReqs[q].pc = "done" /\ otpReqs[q].op = "verify"
                                      /\ otpReqs[q].resp = "200"
                                      /\ otpReqs[q].signerId = s /\ otpReqs[q].code = code]]
  /\ UNCHANGED <<clock, otpCodes, auditLog>>
  /\ OtpFrame

\* verifyOtp without the test of expiresAt
otpOutcome_NoExpiry(rec, code) ==
  IF rec = 0 THEN "otp_expired"
  ELSE IF ~bcryptCompare(code, otpCodes[rec].codeHash) THEN "otp_invalid"
  ELSE "verified"

\* verifyOtp, the two validations on the row that findOne returned
otpOutcome(rec, code) ==
  IF rec = 0 \/ clock > otpCodes[rec].expiresAt THEN "otp_expired"
  ELSE IF ~bcryptCompare(code, otpCodes[rec].codeHash) THEN "otp_invalid"
  ELSE "verified"

\* verifyOtp after the findOne: absent or expired, wrong code, or accepted;
\* the audit event of the outcome is appended
verifyOtpCheck(r) ==
  /\ otpReqs[r].pc = "found"
  /\ \E dt \in Ticks, last \in LastEvents(auditLog, otpReqs[r].signerId) :
       LET s       == otpReqs[r].signerId
           rec     == otpReqs[r].rec
           outcome == otpOutcome(rec, otpReqs[r].code)
           e == CASE outcome = "otp_expired" ->
                       Event("SIGNER", Some(s), "OTP", s, "OTP_FAILED", Some("ip"), Some("ua"),
                             <<Entry("reason", "Expired or Not Found")>>)
                  [] outcome = "otp_invalid" ->
                       Event("SIGNER", Some(s), "OTP", s, "OTP_FAILED", Some("ip"), Some("ua"),
                             <<Entry("reason", "Incorrect Code")>>)
                  [] outcome = "verified" ->
                       Event("SIGNER", Some(s), "OTP", s, "OTP_VERIFIED", Some("ip"), Some("ua"),
                             <<>>)
           row == createAuditLog(e, PrevHash(auditLog, last), clock, clock + dt)
       IN  /\ clock' = clock + dt
           /\ IF HashTaken(auditLog, row)
              THEN /\ UNCHANGED auditLog
                   /\ otpReqs' = [otpReqs EXCEPT ![r].pc = "done", ![r].resp = "500"]
              ELSE /\ auditLog' = Append(auditLog, row)
                   /\ otpReqs' = IF outcome = "verified"
                                 THEN [otpReqs EXCEPT ![r].pc = "verified"]
                                 ELSE [otpReqs EXCEPT ![r].pc = "done", ![r].resp = outcome]
  /\ UNCHANGED otpCodes
  /\ OtpFrame

\* verifyOtp, last statement: otpRecord.destroy(), a statement of its own after
\* the append; when the database rejects it the row stays
verifyOtpDestroy(r) ==
  /\ otpReqs[r].pc = "verified"
  /\ \E rejected \in BOOLEAN :
       IF rejected
       THEN /\ otpReqs' = [otpReqs EXCEPT ![r].pc = "done", ![r].resp = "500_destroy"]
            /\ UNCHANGED otpCodes
       ELSE /\ otpReqs' = [otpReqs EXCEPT ![r].pc = "done", ![r].resp = "200"]
            /\ otpCodes' = [otpCodes EXCEPT ![otpReqs[r].rec].live = FALSE]
  /\ UNCHANGED <<clock, auditLog>>
  /\ OtpFrame

NextOtp ==
  \/ \E d \in Docs, ext \in Exts, dl \in Deadlines : Upload(d, OwnerTenant, ext, dl)
  \/ \E d \in Docs : addSignersToDocument(d)
  \/ Tick
  \/ \E r \in OtpReqs, tok \in RawTokens : startOtpVerification(r, tok)
  \/ \E r \in OtpReqs, tok \in RawTokens, code \in OtpValues : verifyOtpFind(r, tok, code)
  \/ \E r \in OtpReqs : verifyOtpCheck(r)
  \/ \E r \in OtpReqs : verifyOtpDestroy(r)

SpecOtp == Init /\ [][NextOtp]_vars

\* ============================================================ /auth routes
\* bcrypt reads the first 72 bytes of its input.  A refresh token is
\* header.payload.signature with a 36 character header; its first 72 bytes
\* end inside the userId of the payload {"userId": ..., "tenantId": ..., iat, exp}
First72(jwt) == <<"jwt72", jwt.userId>>

\* jwt.sign of the refresh token: a function of the payload and the second
\* of issue
RefreshJwt(u, activeTenantId) == [userId |-> u, tenantId |-> activeTenantId, iat |-> clock]

\* saveSession: the Session row of a refresh token.  issuedFor is no column:
\* it names the raw token the row was created for, which the row's random id
\* and salt tell apart in the database
SessionRow(u, refreshToken) ==
  [userId |-> u, refreshTokenHash |-> bcryptHash(First72(refreshToken)),
   issuedFor |-> refreshToken]

Passwords   == {<<"pw", u>> : u \in AuthUsers}
InviteRoles == {"VIEWER", "MANAGER"}

AuthFrame ==
  UNCHANGED <<documents, signers, shareTokens, certificates, files, stampRuns, ownerOps,
              reqs, tamper, otpCodes, otpReqs, teamVars>>

LastAnswer ==
  [op |-> authLast.op, resp |-> authLast.resp, userId |-> authLast.userId,
   tenantId |-> authLast.tenantId, role |-> authLast.role]

\* inviteMember into a tenant the user does not own: refused when the user is
\* an ACTIVE member, else the row is created or set back to PENDING with the
\* role of this invitation
inviteMember(t, u, role) ==
  /\ t # UserRow(u).tenantId
  /\ ~(<<t, u>> \in DOMAIN members /\ members[<<t, u>>].status = "ACTIVE")
  /\ members' = [k \in DOMAIN members \cup {<<t, u>>} |->
                   IF k = <<t, u>> THEN [role |-> role, status |-> "PENDING"]
                   ELSE members[k]]
  /\ UNCHANGED <<clock, auditLog, sessions, held, spent, authOps, authLast>>
  /\ AuthFrame

\* respondToInvite: the row found by its id becomes ACTIVE or DECLINED,
\* whatever its status was
respondToInvite(t, u, accept) ==
  /\ t # UserRow(u).tenantId
  /\ <<t, u>> \in DOMAIN members
  /\ members' = [members EXCEPT ![<<t, u>>].status = IF accept THEN "ACTIVE" ELSE "DECLINED"]
  /\ UNCHANGED <<clock, auditLog, sessions, held, spent, authOps, authLast>>
  /\ AuthFrame

\* loginUser with the role taken as ADMIN for every account
loginContext_AlwaysAdmin(u) ==
  [tenantId |-> UserRow(u).tenantId, role |-> "ADMIN"]

\* loginUser: activeTenantId and activeRole
loginContext(u) ==
  [tenantId |-> UserRow(u).tenantId,
   role |-> IF UserRow(u).role = "SUPER_ADMIN" THEN "SUPER_ADMIN" ELSE "ADMIN"]

\* the answer of a handler that issued a pair of tokens, or failed
Answer(op, resp, u, target, ctx, presented, refresh) ==
  [op |-> op, resp |-> resp, userId |-> u, target |-> target,
   tenantId |-> ctx.tenantId, role |-> ctx.role, presented |-> presented,
   refresh |-> refresh, prev |-> LastAnswer]

NoContext == [tenantId |-> "none", role |-> "none"]

\* the tail shared by loginUser and switchTenantContext: generateTokens,
\* saveSession, then the LOGIN_SUCCESS entry as a statement of its own
IssueAndLog(op, u, target, ctx, e) ==
  \E dt \in Ticks, last \in LastEvents(auditLog, u) :
    LET refreshToken == RefreshJwt(u, ctx.tenantId)
        row == createAuditLog(e, PrevHash(auditLog, last), clock, clock + dt)
    IN  /\ sessions' = Append(sessions, SessionRow(u, refreshToken))
        /\ clock' = clock + dt
        /\ IF HashTaken(auditLog, row)
           THEN /\ UNCHANGED <<auditLog, held, spent>>
                /\ authLast' = Answer(op, "500", u, target, NoContext, NoJwt, NoJwt)
           ELSE /\ auditLog' = Append(auditLog, row)
                /\ held' = held \cup {refreshToken}
                /\ spent' = spent \ {refreshToken}
                /\ authLast' = Answer(op, "200", u, target, ctx, NoJwt, refreshToken)

\* POST /auth/login
loginUser(u, password) ==
  /\ authOps < MaxAuthOps
  /\ Len(sessions) < MaxSessions
  /\ authOps' = authOps + 1
  /\ IF ~bcryptCompare(password, passwordHashes[u])
     THEN /\ authLast' = Answer("login", "401", u, "none", NoContext, NoJwt, NoJwt)
          /\ UNCHANGED <<clock, auditLog, sessions, held, spent>>
     ELSE IssueAndLog("login", u, "none", loginContext(u),
                      Event("USER", Some(u), "USER", u, "LOGIN_SUCCESS", Some("ip"), Some("ua"),
                            <<Entry("email", UserRow(u).email), Entry("context", "PERSONAL")>>))
  /\ UNCHANGED members
  /\ AuthFrame

\* switchTenantContext with the membership looked up by (userId, tenantId) alone
switchAuthorization_AnyStatus(u, targetTenantId) ==
  IF UserRow(u).tenantId = targetTenantId
  THEN [authorized |-> TRUE,
        newRole |-> IF UserRow(u).role = "SUPER_ADMIN" THEN "SUPER_ADMIN" ELSE "ADMIN"]
  ELSE IF <<targetTenantId, u>> \in DOMAIN members
       THEN [authorized |-> TRUE, newRole |-> members[<<targetTenantId, u>>].role]
       ELSE [authorized |-> FALSE, newRole |-> "USER"]

\* switchTenantContext: authorized and newRole
switchAuthorization(u, targetTenantId) ==
  IF UserRow(u).tenantId = targetTenantId
  THEN [authorized |-> TRUE,
        newRole |-> IF UserRow(u).role = "SUPER_ADMIN" THEN "SUPER_ADMIN" ELSE "ADMIN"]
  ELSE IF /\ <<targetTenantId, u>> \in DOMAIN members
          /\ members[<<targetTenantId, u>>].status = "ACTIVE"
       THEN [authorized |-> TRUE, newRole |-> members[<<targetTenantId, u>>].role]
       ELSE [authorized |-> FALSE, newRole |-> "USER"]

\* POST /auth/switch-tenant
switchTenantContext(u, targetTenantId) ==
  /\ authOps < MaxAuthOps
  /\ Len(sessions) < MaxSessions
  /\ authOps' = authOps + 1
  /\ LET auth == switchAuthorization(u, targetTenantId)
     IN  IF ~auth.authorized
         THEN /\ authLast' = Answer("switch", "403", u, targetTenantId, NoContext, NoJwt, NoJwt)
              /\ UNCHANGED <<clock, auditLog, sessions, held, spent>>
         ELSE IssueAndLog("switch", u, targetTenantId,
                          [tenantId |-> targetTenantId, role |-> auth.newRole],
                          Event("USER", Some(u), "SYSTEM", u, "LOGIN_SUCCESS", Some("ip"),
                                Some("ua"), <<Entry("message", "Switched Tenant Context")>>))
  /\ UNCHANGED members
  /\ AuthFrame

\* handleRefreshToken with the tenant taken from the user row
refreshContext_PersonalTenant(u, decoded) ==
  LET currentTenantId == UserRow(u).tenantId
  IN  [tenantId |-> currentTenantId,
       role |-> IF currentTenantId = UserRow(u).tenantId
                THEN (IF UserRow(u).role = "SUPER_ADMIN" THEN "SUPER_ADMIN" ELSE "ADMIN")
                ELSE IF <<currentTenantId, u>> \in DOMAIN members
                     THEN members[<<currentTenantId, u>>].role
                     ELSE "USER"]

\* handleRefreshToken: currentTenantId and role
refreshContext(u, decoded) ==
  LET currentTenantId == decoded.tenantId
  IN  [tenantId |-> currentTenantId,
       role |-> IF currentTenantId = UserRow(u).tenantId
                THEN (IF UserRow(u).role = "SUPER_ADMIN" THEN "SUPER_ADMIN" ELSE "ADMIN")
                ELSE IF <<currentTenantId, u>> \in DOMAIN members
                     THEN members[<<currentTenantId, u>>].role
                     ELSE "USER"]

\* the sessions a raw refresh token is compared with, and those it matches
MatchingSessions(refreshToken) ==
  {i \in DOMAIN sessions :
     /\ sessions[i].userId = refreshToken.userId
     /\ bcryptCompare(First72(refreshToken), sessions[i].refreshTokenHash)}

DropAt(seq, i) == SubSeq(seq, 1, i - 1) \o SubSeq(seq, i + 1, Len(seq))

\* POST /auth/refresh with a token this service signed, or with a string that
\* does not decode.  findAll returns the sessions in no stated order: the
\* session destroyed is any of the matching ones.
handleRefreshToken(refreshToken) ==
  /\ authOps < MaxAuthOps
  /\ authOps' = authOps + 1
  /\ IF refreshToken = NoJwt \/ MatchingSessions(refreshToken) = {}
     THEN /\ authLast' = Answer("refresh", "401", refreshToken.userId, "none", NoContext,
                                refreshToken, NoJwt)
          /\ UNCHANGED <<sessions, held, spent>>
     ELSE \E i \in MatchingSessions(refreshToken) :
            LET u      == refreshToken.userId
                ctx    == refreshContext(u, refreshToken)
                newRef == RefreshJwt(u, ctx.tenantId)
            IN  /\ sessions' = Append(DropAt(sessions, i), SessionRow(u, newRef))
                /\ held' = held \cup {newRef}
                /\ spent' = (spent \cup {refreshToken}) \ {newRef}
                /\ authLast' = Answer("refresh", "200", u, "none", ctx, refreshToken, newRef)
  /\ UNCHANGED <<clock, auditLog, members>>
  /\ AuthFrame

NextAuth ==
  \/ Tick
  \/ \E t \in Tenants, u \in AuthUsers, role \in InviteRoles : inviteMember(t, u, role)
  \/ \E t \in Tenants, u \in AuthUsers, accept \in BOOLEAN : respondToInvite(t, u, accept)
  \/ \E u \in AuthUsers, password \in Passwords : loginUser(u, password)
  \/ \E u \in AuthUsers, t \in Tenants : switchTenantContext(u, t)
  \/ \E refreshToken \in held \cup {NoJwt} : handleRefreshToken(refreshToken)

SpecAuth == Init /\ [][NextAuth]_vars

\* POST /auth/logout of an authenticated user: every Session of the user that
\* bcrypt.compare accepts for the presented token is destroyed; answered 200
handleLogout(u, refreshToken) ==
  /\ authOps < MaxAuthOps
  /\ authOps' = authOps + 1
  /\ LET Kept(row) == ~(/\ row.userId = u
                        /\ bcryptCompare(First72(refreshToken), row.refreshTokenHash))
     IN  sessions' = SelectSeq(sessions, Kept)
  /\ authLast' = Answer("logout", "200", u, "none", NoContext, refreshToken, NoJwt)
  /\ UNCHANGED <<clock, auditLog, members, held, spent>>
  /\ AuthFrame

NextSession ==
  \/ Tick
  \/ \E u \in AuthUsers, password \in Passwords : loginUser(u, password)
  \/ \E u \in AuthUsers, t \in Tenants : switchTenantContext(u, t)
  \/ \E refreshToken \in held \cup {NoJwt} : handleRefreshToken(refreshToken)
  \/ \E u \in AuthUsers, refreshToken \in held : handleLogout(u, refreshToken)

SpecSession == Init /\ [][NextSession]_vars

\* --------------------------------------------- /auth/refresh, step by step
RefreshReqs == 1..MaxRefreshReqs

RefreshFrame ==
  UNCHANGED <<clock, documents, signers, shareTokens, certificates, auditLog, files,
              stampRuns, ownerOps, reqs, tamper, otpCodes, otpReqs, members, authOps,
              authLast, tenantRows, userRows, memberRows, teamReqs, docLast, folders,
              folderOf, passwordHashes, resetCodes, uploads>>

\* requests are numbered in the order in which they arrive
RefreshArrives(r) ==
  /\ refreshReqs[r].pc = "idle"
  /\ IF r = 1 THEN TRUE ELSE refreshReqs[r - 1].pc # "idle"

\* handleRefreshToken up to the end of the bcrypt.compare loop: the request
\* holds the Session it matched, or is answered 401.  overlaps records that
\* another request with the same raw token held a Session at that moment.
refreshFind(r, refreshToken) ==
  /\ RefreshArrives(r)
  /\ IF refreshToken = NoJwt \/ MatchingSessions(refreshToken) = {}
     THEN refreshReqs' = [refreshReqs EXCEPT ![r] =
                            [@ EXCEPT !.pc = "done", !.presented = refreshToken,
                                      !.resp = "401"]]
     ELSE \E i \in MatchingSessions(refreshToken) :
            refreshReqs' = [refreshReqs EXCEPT ![r] =
                              [@ EXCEPT !.pc = "found", !.presented = refreshToken,
                                        !.session = i,
                                        !.overlaps =
                                          \E q \in RefreshReqs \ {r} :
                                            /\ refreshReqs[q].pc = "found"
                                            /\ refreshReqs[q].presented = refreshToken]]
  /\ UNCHANGED <<sessions, held, spent>>
  /\ RefreshFrame

\* the position of a Session row after the row at position i was destroyed;
\* 0 is a row that is no longer in the table
RowAfterDestroy(j, i) == IF i = 0 \/ j < i THEN j ELSE IF j = i THEN 0 ELSE j - 1

\* sessionRecord.destroy() deletes by primary key and raises nothing when
\* the row is already gone
destroySession(i) == IF i = 0 THEN sessions ELSE DropAt(sessions, i)

\* handleRefreshToken from sessionRecord.destroy() on: the new tokens and
\* their Session
refreshRotate(r) ==
  /\ refreshReqs[r].pc = "found"
  /\ LET refreshToken == refreshReqs[r].presented
         i      == refreshReqs[r].session
         u      == refreshToken.userId
         ctx    == refreshContext(u, refreshToken)
         newRef == RefreshJwt(u, ctx.tenantId)
     IN  /\ sessions' = Append(destroySession(i), SessionRow(u, newRef))
         /\ held' = held \cup {newRef}
         /\ spent' = (spent \cup {refreshToken}) \ {newRef}
         /\ refreshReqs' = [q \in RefreshReqs |->
                             IF q = r
                             THEN [refreshReqs[q] EXCEPT !.pc = "done", !.resp = "200",
                                                         !.refresh = newRef, !.session = 0]
                             ELSE [refreshReqs[q] EXCEPT
                                     !.session = RowAfterDestroy(@, i)]]
  /\ RefreshFrame

NextRefresh ==
  \/ Tick
  \/ \E u \in AuthUsers, password \in Passwords : loginUser(u, password)
  \/ \E r \in RefreshReqs, refreshToken \in held \cup {NoJwt} : refreshFind(r, refreshToken)
  \/ \E r \in RefreshReqs : refreshRotate(r)

SpecRefresh == Init /\ [][NextRefresh]_vars

\* ------------------------------ /auth/forgot-password, /auth/reset-password
\* expiresAt = Date.now() + 15 minutes: shorter than one step of the clock
FifteenMinutes == 0

\* what the clients send: the addresses of the accounts and one of nobody,
\* six-digit codes, a new password
ResetEmails  == {UserRow(u).email : u \in AuthUsers} \cup {<<"mail", "nobody">>}
ResetOtps    == {<<"otp", 1>>, <<"otp", 2>>}
NewPasswords == {<<"pw", "new">>}

\* User.findOne({ where: { email } })
UsersByEmail(email) == {u \in AuthUsers : UserRow(u).email = email}

\* Users.phoneWhatsE164: u1 has registered a number, u2 has none
UserPhone(u) == IF u = "u1" THEN Some(<<"phone", u>>) ELSE Null

ResetFrame ==
  UNCHANGED <<clock, documents, signers, shareTokens, certificates, auditLog, files,
              stampRuns, ownerOps, reqs, tamper, otpCodes, otpReqs, members, sessions,
              held, spent, tenantRows, userRows, memberRows, teamReqs, docLast, folders,
              folderOf, refreshReqs, uploads>>

\* requestPasswordReset: nothing is stored for an unknown address, and the
\* WhatsApp channel needs a number; else one OtpCode row of a random code
requestPasswordReset(email, channel) ==
  /\ authOps < MaxAuthOps
  /\ Len(resetCodes) < MaxResetCodes
  /\ authOps' = authOps + 1
  /\ IF UsersByEmail(email) = {}
     THEN /\ authLast' = Answer("forgotPassword", "200", "none", "none", NoContext, NoJwt, NoJwt)
          /\ UNCHANGED resetCodes
     ELSE \E u \in UsersByEmail(email) :
            IF channel = "WHATSAPP" /\ UserPhone(u) = Null
            THEN /\ authLast' = Answer("forgotPassword", "500", u, "none", NoContext,
                                       NoJwt, NoJwt)
                 /\ UNCHANGED resetCodes
            ELSE \E otp \in ResetOtps :
                   /\ resetCodes' =
                        Append(resetCodes,
                               [recipient |-> IF channel = "WHATSAPP" THEN UserPhone(u)[1]
                                              ELSE email,
                                channel |-> channel, codeHash |-> bcryptHash(otp),
                                expiresAt |-> clock + FifteenMinutes,
                                context |-> "PASSWORD_RESET"])
                   /\ authLast' = Answer("forgotPassword", "200", u, "none", NoContext,
                                         NoJwt, NoJwt)
  /\ UNCHANGED passwordHashes
  /\ ResetFrame

\* OtpCode.findOne of resetPassword: the newest PASSWORD_RESET row sent to the
\* address or to the number of the user; 0 when there is none
ResetRecord(u, email) ==
  LET possibleRecipients == {email} \cup
                            (IF UserPhone(u) = Null THEN {} ELSE {UserPhone(u)[1]})
      rows == {i \in DOMAIN resetCodes :
                 /\ resetCodes[i].recipient \in possibleRecipients
                 /\ resetCodes[i].context = "PASSWORD_RESET"}
  IN  IF rows = {} THEN 0 ELSE CHOOSE i \in rows : \A j \in rows : j <= i

\* otpRecord.destroy({ transaction }) without effect
destroyResetCode_Kept(i) == resetCodes
\* otpRecord.destroy({ transaction })
destroyResetCode(i) == DropAt(resetCodes, i)

\* resetPassword: the checks raise before anything is written; the update of
\* the user and the destroy of the row are committed by one transaction
resetPassword(email, otp, newPassword) ==
  /\ authOps < MaxAuthOps
  /\ authOps' = authOps + 1
  /\ IF UsersByEmail(email) = {}
     THEN /\ authLast' = Answer("resetPassword", "500", "none", "none", NoContext, NoJwt, NoJwt)
          /\ UNCHANGED <<passwordHashes, resetCodes>>
     ELSE \E u \in UsersByEmail(email) :
            LET i == ResetRecord(u, email)
            IN  IF \/ i = 0
                   \/ clock > resetCodes[i].expiresAt
                   \/ ~bcryptCompare(otp, resetCodes[i].codeHash)
                THEN /\ authLast' = Answer("resetPassword", "500", u, "none", NoContext,
                                           NoJwt, NoJwt)
                     /\ UNCHANGED <<passwordHashes, resetCodes>>
                ELSE /\ passwordHashes' =
                          [passwordHashes EXCEPT ![u] = bcryptHash(newPassword)]
                     /\ resetCodes' = destroyResetCode(i)
                     /\ authLast' = Answer("resetPassword", "200", u, "none", NoContext,
                                           NoJwt, NoJwt)
  /\ ResetFrame

NextReset ==
  \/ Tick
  \/ \E email \in ResetEmails, channel \in {"EMAIL", "WHATSAPP"} :
       requestPasswordReset(email, channel)
  \/ \E email \in ResetEmails, otp \in ResetOtps, newPassword \in NewPasswords :
       resetPassword(email, otp, newPassword)
  \/ \E u \in AuthUsers, password \in Passwords \cup NewPasswords : loginUser(u, password)

SpecReset == Init /\ [][NextReset]_vars

\* ========================================== plans, subscription, /documents
\* the seeded plans; price in cents
Plans == [gratuito |-> [price |-> 0, userLimit |-> 1, documentLimit |-> 3],
          basico   |-> [price |-> 2990, userLimit |-> 3, documentLimit |-> 20]]
PlanOf(t) == Plans[tenantRows[t].planId]

\* req.user of authGuard: the account with the tenant and role of its token
Principal(u) == [id |-> u, tenantId |-> loginContext(u).tenantId, role |-> loginContext(u).role]
Principals == {Principal(u) : u \in AuthUsers}

\* ids of the documents in the order in which they are created
QDocIds == <<"d1", "d2", "d3", "d4">>
QDocs   == {QDocIds[i] : i \in DOMAIN QDocIds}

GateFrame ==
  UNCHANGED <<signers, shareTokens, certificates, stampRuns, ownerOps, reqs, tamper,
              otpCodes, otpReqs, members, sessions, held, spent, authOps, authLast, moreVars>>

\* subscribeToPlan: refused for a free plan, else the tenant takes the plan
\* and waits for the first payment
subscribeToPlan(t, planSlug) ==
  /\ Plans[planSlug].price > 0
  /\ tenantRows' = [tenantRows EXCEPT ![t] =
                      [planId |-> planSlug, subscriptionStatus |-> Some("PENDING")]]
  /\ UNCHANGED <<clock, documents, files, auditLog, userRows, memberRows, teamReqs, docLast>>
  /\ GateFrame

\* cancelSubscription: needs a subscription; the status becomes CANCELED and
\* the plan the one with slug 'basico'
cancelSubscription(t) ==
  /\ tenantRows[t].subscriptionStatus # Null
  /\ tenantRows' = [tenantRows EXCEPT ![t] =
                      [planId |-> "basico", subscriptionStatus |-> Some("CANCELED")]]
  /\ UNCHANGED <<clock, documents, files, auditLog, userRows, memberRows, teamReqs, docLast>>
  /\ GateFrame

\* the payment provider reports the state of a subscription
paymentStatusChanged(t, status) ==
  /\ tenantRows[t].subscriptionStatus \notin {Null, Some("CANCELED"), Some(status)}
  /\ tenantRows' = [tenantRows EXCEPT ![t].subscriptionStatus = Some(status)]
  /\ UNCHANGED <<clock, documents, files, auditLog, userRows, memberRows, teamReqs, docLast>>
  /\ GateFrame

\* a subscription check that lets an OVERDUE tenant through
SubscriptionIrregular_CanceledOnly(t) ==
  /\ PlanOf(t).price > 0
  /\ tenantRows[t].subscriptionStatus = Some("CANCELED")

\* the check of plan price and subscriptionStatus made by upload and invite
SubscriptionIrregular(t) ==
  /\ PlanOf(t).price > 0
  /\ tenantRows[t].subscriptionStatus \in {Some("OVERDUE"), Some("CANCELED")}

\* Document.count({ where: { tenantId } })
DocumentCount(t) == Cardinality({d \in DOMAIN documents : documents[d].tenantId = t})

\* the plan check of the upload with the limit itself still allowed
documentLimitReached_OneMore(t) == DocumentCount(t) > PlanOf(t).documentLimit

\* createDocumentAndHandleUpload: currentCount >= tenant.plan.documentLimit
documentLimitReached(t) == DocumentCount(t) >= PlanOf(t).documentLimit

\* the answer of a document route; an error without statusCode is sent as
\* 500; n alternates so that two equal answers in a row are two answers
DocAnswer(op, user, d, status, body) ==
  [n |-> 1 - docLast.n, op |-> op, user |-> user.id, tenantId |-> user.tenantId,
   docId |-> d, status |-> status, body |-> body]

\* POST /documents: createDocumentAndHandleUpload with its plan checks; the id
\* of the new row is the next unused one
createDocument(user, ext, deadline) ==
  /\ Cardinality(DOMAIN documents) < Len(QDocIds)
  /\ LET t == user.tenantId
         d == QDocIds[Cardinality(DOMAIN documents) + 1]
     IN  IF SubscriptionIrregular(t)
         THEN /\ docLast' = DocAnswer("createDocument", user, d, "500", Null)
              /\ UNCHANGED <<clock, documents, files, auditLog>>
         ELSE IF documentLimitReached(t)
         THEN /\ docLast' = DocAnswer("createDocument", user, d, "403", Null)
              /\ UNCHANGED <<clock, documents, files, auditLog>>
         ELSE \E dt \in Ticks, last \in LastEvents(auditLog, d) :
                LET key   == StorageKey(d, ext)
                    bytes == <<"pdf", d>>
                    sha   == SHA256(bytes)
                    e     == Event("USER", Some(user.id), "DOCUMENT", d, "STORAGE_UPLOADED",
                                   Some("SYSTEM"), Some("SYSTEM"),
                                   <<Entry("fileName", "contract"), Entry("sha256", sha)>>)
                    row   == createAuditLog(e, PrevHash(auditLog, last), clock, clock + dt)
                    doc   == [status |-> "READY", tenantId |-> t, storageKey |-> key,
                              sha256 |-> sha, deadlineAt |-> deadline]
                IN  /\ documents' = documents @@ (d :> doc)
                    /\ files' = files @@ (key :> bytes)
                    /\ auditLog' = Append(auditLog, row)
                    /\ clock' = clock + dt
                    /\ docLast' = DocAnswer("createDocument", user, d, "201", Some(doc))
  /\ UNCHANGED <<tenantRows, userRows, memberRows, teamReqs>>
  /\ GateFrame

\* ------------------------------------------- POST /documents, step by step
UploadReqs == 1..MaxUploads

UploadFrame ==
  UNCHANGED <<signers, shareTokens, certificates, stampRuns, ownerOps, reqs, tamper,
              otpCodes, otpReqs, members, sessions, held, spent, authOps, authLast,
              tenantRows, userRows, memberRows, teamReqs, docLast, folders, folderOf,
              refreshReqs, passwordHashes, resetCodes>>

\* requests are numbered in the order in which they arrive
UploadArrives(r) ==
  /\ uploads[r].pc = "idle"
  /\ IF r = 1 THEN TRUE ELSE uploads[r - 1].pc # "idle"

\* createDocumentAndHandleUpload up to the transaction: the tenant with its
\* plan, the subscription check, Document.count against plan.documentLimit
uploadCheck(r, user) ==
  /\ UploadArrives(r)
  /\ LET t   == user.tenantId
         req == [IdleUpload EXCEPT !.userId = user.id, !.tenantId = t]
     IN  uploads' = [uploads EXCEPT ![r] =
                       IF SubscriptionIrregular(t)
                       THEN [req EXCEPT !.pc = "done", !.resp = "500"]
                       ELSE IF documentLimitReached(t)
                       THEN [req EXCEPT !.pc = "done", !.resp = "403"]
                       ELSE [req EXCEPT !.pc = "checked"]]
  /\ UNCHANGED <<clock, documents, files, auditLog>>
  /\ UploadFrame

\* createDocumentAndHandleUpload from sequelize.transaction() on: the row, the
\* file under its permanent key, STORAGE_UPLOADED, commit
uploadCommit(r, ext, deadline) ==
  /\ uploads[r].pc = "checked"
  /\ Cardinality(DOMAIN documents) < Len(QDocIds)
  /\ \E dt \in Ticks :
       LET t     == uploads[r].tenantId
           d     == QDocIds[Cardinality(DOMAIN documents) + 1]
           key   == StorageKey(d, ext)
           bytes == <<"pdf", d>>
           sha   == SHA256(bytes)
           e     == Event("USER", Some(uploads[r].userId), "DOCUMENT", d, "STORAGE_UPLOADED",
                          Some("SYSTEM"), Some("SYSTEM"),
                          <<Entry("fileName", "contract"), Entry("sha256", sha)>>)
           doc   == [status |-> "READY", tenantId |-> t, storageKey |-> key,
                     sha256 |-> sha, deadlineAt |-> deadline]
       IN  \E last \in LastEvents(auditLog, d) :
             LET row == createAuditLog(e, PrevHash(auditLog, last), clock, clock + dt)
             IN  /\ documents' = documents @@ (d :> doc)
                 /\ files' = files @@ (key :> bytes)
                 /\ auditLog' = Append(auditLog, row)
                 /\ clock' = clock + dt
                 /\ uploads' = [uploads EXCEPT ![r] = [@ EXCEPT !.pc = "done", !.resp = "201"]]
  /\ UploadFrame

NextUploads ==
  \/ \E user \in Principals :
       Cardinality(DOMAIN documents) < MaxGateDocs /\ createDocument(user, TRUE, Null)
  \/ \E r \in UploadReqs, user \in Principals : uploadCheck(r, user)
  \/ \E r \in UploadReqs : uploadCommit(r, TRUE, Null)

SpecUploads == Init /\ [][NextUploads]_vars

\* Document.findOne({ where: { id: docId, tenantId: user.tenantId } })
FindDocument(d, user) == d \in DOMAIN documents /\ documents[d].tenantId = user.tenantId

ReadFrame ==
  /\ UNCHANGED <<clock, files, auditLog, tenantRows, userRows, memberRows, teamReqs>>
  /\ GateFrame

\* GET /documents/:id
getDocumentById(user, d) ==
  /\ docLast' = IF FindDocument(d, user)
                THEN DocAnswer("getDocumentById", user, d, "200", Some(documents[d]))
                ELSE DocAnswer("getDocumentById", user, d, "500", Null)
  /\ UNCHANGED documents
  /\ ReadFrame

\* PATCH /documents/:id with a deadlineAt
updateDocument(user, d, deadline) ==
  /\ IF FindDocument(d, user)
     THEN /\ documents' = [documents EXCEPT ![d].deadlineAt = deadline]
          /\ docLast' = DocAnswer("updateDocument", user, d, "200", Some(documents'[d]))
     ELSE /\ docLast' = DocAnswer("updateDocument", user, d, "500", Null)
          /\ UNCHANGED documents
  /\ ReadFrame

\* GET /documents/:id/download
downloadDocumentFile(user, d) ==
  /\ docLast' = IF FindDocument(d, user)
                THEN DocAnswer("downloadDocumentFile", user, d, "200",
                               Some(documents[d].storageKey))
                ELSE DocAnswer("downloadDocumentFile", user, d, "500", Null)
  /\ UNCHANGED documents
  /\ ReadFrame

\* GET /documents/:id/audit
getDocumentAuditTrail(user, d) ==
  /\ docLast' = IF FindDocument(d, user)
                THEN DocAnswer("getDocumentAuditTrail", user, d, "200",
                               Some({auditLog[i] : i \in Collected(d)}))
                ELSE DocAnswer("getDocumentAuditTrail", user, d, "500", Null)
  /\ UNCHANGED documents
  /\ ReadFrame

\* GET /documents/:id/verify-chain: the report of verifyAuditLogChain(id),
\* which takes no user
verifyChain(user, d) ==
  /\ \E ord \in ChainOrders(d) :
       LET report == verifyAuditLogChain(ord)
       IN  docLast' = IF report.isValid
                      THEN DocAnswer("verifyChain", user, d, "200",
                                     Some([isValid |-> TRUE, totalEvents |-> report.count]))
                      ELSE DocAnswer("verifyChain", user, d, "409",
                                     Some([isValid |-> FALSE,
                                           brokenAt |-> report.brokenEventId]))
  /\ UNCHANGED documents
  /\ ReadFrame

\* inviteSigners, cancelDocument, expireDocument, applyPades when the findOne
\* under the user's tenant returns nothing: the service throws
MutatingRoutes == {"inviteSigners", "cancelDocument", "expireDocument", "applyPades"}
documentNotFound(op, user, d) ==
  /\ ~FindDocument(d, user)
  /\ docLast' = DocAnswer(op, user, d, "500", Null)
  /\ UNCHANGED documents
  /\ ReadFrame

\* the ids asked for: the first document and one that is created last, if ever
ReqDocs == {"d1", "d4"}

NextIsolation ==
  \/ Tick
  \/ \E user \in Principals : createDocument(user, TRUE, Null)
  \/ \E user \in Principals, d \in ReqDocs : getDocumentById(user, d)
  \/ \E user \in Principals, d \in ReqDocs : updateDocument(user, d, Some(0))
  \/ \E user \in Principals, d \in ReqDocs : downloadDocumentFile(user, d)
  \/ \E user \in Principals, d \in ReqDocs : getDocumentAuditTrail(user, d)
  \/ \E user \in Principals, d \in ReqDocs : verifyChain(user, d)
  \/ \E op \in MutatingRoutes, user \in Principals, d \in ReqDocs :
       documentNotFound(op, user, d)

SpecIsolation == Init /\ [][NextIsolation]_vars

\* ================================== /auth/register, /tenants, /users routes
\* ids of the tenants in the order in which they are created
TenantIds == <<"T1", "T2", "T3", "T4">>

\* what the clients send: e-mail addresses and CPFs of registered accounts
\* and of people who have none yet
TeamEmails == {<<"mail", "u1">>, <<"mail", "u2">>, <<"mail", "n1">>}
NewEmails  == {<<"mail", "u1">>, <<"mail", "n1">>}
NewCpfs    == {<<"cpf", "u1">>, <<"cpf", "n1">>}

TeamFrame ==
  UNCHANGED <<documents, signers, shareTokens, certificates, files, stampRuns, ownerOps,
              reqs, tamper, otpCodes, otpReqs, members, spent, authOps, authLast, docLast,
              moreVars>>

\* requests are numbered as they arrive
Arrives(r) ==
  /\ teamReqs[r].pc = "idle"
  /\ IF r = 1 THEN TRUE ELSE teamReqs[r - 1].pc # "idle"

TeamDone(r, req, resp) ==
  teamReqs' = [teamReqs EXCEPT ![r] = [req EXCEPT !.pc = "done", !.resp = resp]]

\* User.findOne({ where: { email } }) and { where: { cpf } }
UsersWithEmail(email) == {i \in DOMAIN userRows : userRows[i].email = email}
UsersWithCpf(cpf)     == {i \in DOMAIN userRows : cpf # Null /\ userRows[i].cpf = cpf}

\* a Users table without the unique indexes
UserUniqueViolation_NoIndex(email, cpf) == FALSE

\* the unique indexes of Users.email and Users.cpf, as an insert meets them
UserUniqueViolation(email, cpf) == UsersWithEmail(email) # {} \/ UsersWithCpf(cpf) # {}

\* TenantMember.findOne({ where: { tenantId, email } }); the unique index
\* (tenantId, email) leaves at most one
MembersAt(t, email) ==
  {i \in DOMAIN memberRows : memberRows[i].tenantId = t /\ memberRows[i].email = email}

\* inviteMember: active users of the tenant plus its members not DECLINED
Occupancy(t) ==
  Cardinality({i \in DOMAIN userRows :
                 userRows[i].tenantId = t /\ userRows[i].status = "ACTIVE"})
  + Cardinality({i \in DOMAIN memberRows :
                   memberRows[i].tenantId = t /\ memberRows[i].status # "DECLINED"})

\* POST /auth/register, up to the start of the transaction: the password
\* length and the findOne checks of e-mail and CPF; the controller answers
\* every error with 409
registerCheck(r, email, cpf, passwordLength) ==
  /\ Arrives(r)
  /\ LET req == [IdleTeamReq EXCEPT !.op = "register", !.email = email, !.cpf = cpf]
     IN  IF passwordLength < 6 \/ UsersWithEmail(email) # {} \/ UsersWithCpf(cpf) # {}
         THEN TeamDone(r, req, "409")
         ELSE teamReqs' = [teamReqs EXCEPT ![r] = [req EXCEPT !.pc = "registering"]]
  /\ UNCHANGED <<clock, auditLog, sessions, held, tenantRows, userRows, memberRows>>
  /\ TeamFrame

\* registerUser without the rollback: the Tenant row written before the
\* failing insert stays
registerFailed_NoRollback(r, t) ==
  /\ TeamDone(r, [teamReqs[r] EXCEPT !.tenantId = t], "409")
  /\ tenantRows' = tenantRows @@ (t :> [planId |-> "gratuito", subscriptionStatus |-> Null])
  /\ UNCHANGED <<clock, auditLog, sessions, held, userRows, memberRows>>

\* registerUser, catch: transaction.rollback() and the error; the request
\* keeps the id of the tenant it had inserted
registerFailed(r, t) ==
  /\ TeamDone(r, [teamReqs[r] EXCEPT !.tenantId = t], "409")
  /\ UNCHANGED <<clock, auditLog, sessions, held, tenantRows, userRows, memberRows>>

\* registerUser, the transaction: Tenant, User, TenantMember and the
\* USER_CREATED audit entry, then the commit and the session of the new user
registerCommit(r) ==
  /\ teamReqs[r].pc = "registering"
  /\ Cardinality(DOMAIN tenantRows) < Len(TenantIds)
  /\ Len(userRows) < Len(AccountIds)
  /\ LET req == teamReqs[r]
         t   == TenantIds[Cardinality(DOMAIN tenantRows) + 1]
         u   == AccountIds[Len(userRows) + 1]
     IN  IF UserUniqueViolation(req.email, req.cpf)
         THEN registerFailed(r, t)
         ELSE \E dt \in Ticks, last \in LastEvents(auditLog, u) :
           LET e   == Event("USER", Some(u), "USER", u, "USER_CREATED",
                            Some("0.0.0.0"), Some("System"),
                            <<Entry("email", req.email), Entry("plan", "gratuito"),
                              Entry("context", "SELF_REGISTER")>>)
               row == createAuditLog(e, PrevHash(auditLog, last), clock, clock + dt)
               refreshToken == RefreshJwt(u, t)
           IN  IF HashTaken(auditLog, row)
               THEN registerFailed(r, t)
               ELSE /\ tenantRows' = tenantRows @@
                          (t :> [planId |-> "gratuito", subscriptionStatus |-> Null])
                    /\ userRows' = Append(userRows,
                          [id |-> u, email |-> req.email, cpf |-> req.cpf, tenantId |-> t,
                           role |-> "ADMIN", status |-> "ACTIVE"])
                    /\ memberRows' = Append(memberRows,
                          [tenantId |-> t, email |-> req.email, userId |-> u,
                           role |-> "ADMIN", status |-> "ACTIVE"])
                    /\ auditLog' = Append(auditLog, row)
                    /\ clock' = clock + dt
                    /\ sessions' = Append(sessions, SessionRow(u, refreshToken))
                    /\ held' = held \cup {refreshToken}
                    /\ TeamDone(r, [req EXCEPT !.tenantId = t, !.userId = u, !.role = "ADMIN"],
                            "201")
  /\ TeamFrame

\* POST /tenants/invite, the reads of inviteMember: subscription, occupancy
\* against plan.userLimit, the invited account, an ACTIVE membership.  Its
\* errors carry no statusCode
inviteCheck(r, user, email, role) ==
  /\ Arrives(r)
  /\ LET t   == user.tenantId
         req == [IdleTeamReq EXCEPT !.op = "invite", !.email = email, !.tenantId = t,
                                    !.role = role, !.by = user.id]
     IN  IF \/ SubscriptionIrregular(t)
            \/ Occupancy(t) >= PlanOf(t).userLimit
            \/ UsersWithEmail(email) = {}
            \/ \E i \in MembersAt(t, email) : memberRows[i].status = "ACTIVE"
         THEN TeamDone(r, req, "500")
         ELSE \E i \in UsersWithEmail(email) :
                teamReqs' = [teamReqs EXCEPT ![r] =
                               [req EXCEPT !.pc = "inviting", !.userId = userRows[i].id]]
  /\ UNCHANGED <<clock, auditLog, sessions, held, tenantRows, userRows, memberRows>>
  /\ TeamFrame

\* inviteMember, TenantMember.findOrCreate on (tenantId, email) and the update
\* of a row that was found
inviteCreate(r) ==
  /\ teamReqs[r].pc = "inviting"
  /\ LET req == teamReqs[r]
         row == [tenantId |-> req.tenantId, email |-> req.email, userId |-> req.userId,
                 role |-> req.role, status |-> "PENDING"]
     IN  /\ memberRows' =
              IF MembersAt(req.tenantId, req.email) = {}
              THEN Append(memberRows, row)
              ELSE [i \in DOMAIN memberRows |->
                      IF i \in MembersAt(req.tenantId, req.email) THEN row ELSE memberRows[i]]
         /\ TeamDone(r, req, "201")
  /\ UNCHANGED <<clock, auditLog, sessions, held, tenantRows, userRows>>
  /\ TeamFrame

\* POST /tenants/invites/:id/respond: respondToInvite by the invited account
respondInvite(userId, inviteId, accept) ==
  /\ inviteId \in DOMAIN memberRows
  /\ \E i \in DOMAIN userRows :
       /\ userRows[i].id = userId
       /\ memberRows[inviteId].userId = userId \/ userRows[i].email = memberRows[inviteId].email
  /\ memberRows' = [memberRows EXCEPT ![inviteId].userId = userId,
                                      ![inviteId].status = IF accept THEN "ACTIVE"
                                                           ELSE "DECLINED"]
  /\ UNCHANGED <<clock, auditLog, sessions, held, tenantRows, userRows, teamReqs>>
  /\ TeamFrame

\* POST /users of an administrator, the reads of createUserByAdmin:
\* subscription, occupancy against plan.userLimit (403), the e-mail (409)
createUserCheck(r, adminUser, email) ==
  /\ Arrives(r)
  /\ LET t   == adminUser.tenantId
         req == [IdleTeamReq EXCEPT !.op = "createUser", !.email = email, !.tenantId = t,
                                    !.by = adminUser.id]
     IN  IF SubscriptionIrregular(t) THEN TeamDone(r, req, "500")
         ELSE IF Occupancy(t) >= PlanOf(t).userLimit THEN TeamDone(r, req, "403")
         ELSE IF UsersWithEmail(email) # {} THEN TeamDone(r, req, "409")
         ELSE teamReqs' = [teamReqs EXCEPT ![r] = [req EXCEPT !.pc = "creating"]]
  /\ UNCHANGED <<clock, auditLog, sessions, held, tenantRows, userRows, memberRows>>
  /\ TeamFrame

\* createUserByAdmin, User.create in the tenant of the administrator, with no
\* CPF; the insert meets the unique index of Users.email
createUserCommit(r) ==
  /\ teamReqs[r].pc = "creating"
  /\ Len(userRows) < Len(AccountIds)
  /\ LET req == teamReqs[r]
         u   == AccountIds[Len(userRows) + 1]
     IN  IF UserUniqueViolation(req.email, Null)
         THEN /\ TeamDone(r, req, "500")
              /\ UNCHANGED userRows
         ELSE /\ userRows' = Append(userRows,
                    [id |-> u, email |-> req.email, cpf |-> Null, tenantId |-> req.tenantId,
                     role |-> "USER", status |-> "ACTIVE"])
              /\ TeamDone(r, [req EXCEPT !.userId = u, !.role = "USER"], "201")
  /\ UNCHANGED <<clock, auditLog, sessions, held, tenantRows, memberRows>>
  /\ TeamFrame

\* PATCH /users/:id of an administrator with a new e-mail: the row is looked
\* up under the tenant of the administrator unless it is a SUPER_ADMIN; the
\* update meets the unique index of Users.email
updateUserByAdmin(adminUser, targetUserId, email) ==
  /\ \E i \in DOMAIN userRows :
       /\ userRows[i].id = targetUserId
       /\ adminUser.role = "SUPER_ADMIN" \/ userRows[i].tenantId = adminUser.tenantId
       /\ ~UserUniqueViolation(email, Null)
       /\ userRows' = [userRows EXCEPT ![i].email = email]
  /\ UNCHANGED <<clock, auditLog, sessions, held, tenantRows, memberRows, teamReqs>>
  /\ TeamFrame

NextTeam ==
  \/ \E r \in TeamReqs, email \in NewEmails, cpf \in NewCpfs, passwordLength \in {5, 6} :
       registerCheck(r, email, cpf, passwordLength)
  \/ \E r \in TeamReqs : registerCommit(r)
  \/ \E r \in TeamReqs, user \in Principals, email \in TeamEmails :
       inviteCheck(r, user, email, "VIEWER")
  \/ \E r \in TeamReqs : inviteCreate(r)
  \/ \E r \in TeamReqs, user \in Principals, email \in NewEmails :
       createUserCheck(r, user, email)
  \/ \E r \in TeamReqs : createUserCommit(r)
  \/ \E userId \in {"u1", "u2", "u3"}, inviteId \in 1..3, accept \in BOOLEAN :
       respondInvite(userId, inviteId, accept)
  \/ \E user \in Principals, targetUserId \in {"u1", "u2"}, email \in NewEmails :
       updateUserByAdmin(user, targetUserId, email)
  \/ \E t \in Tenants : subscribeToPlan(t, "basico")

SpecTeam == Init /\ [][NextTeam]_vars

\* uploads, reads and invites of tenants whose subscription changes
NextGate ==
  \/ \E t \in Tenants : subscribeToPlan(t, "basico")
  \/ \E t \in Tenants : cancelSubscription(t)
  \/ \E t \in Tenants, status \in {"ACTIVE", "OVERDUE"} : paymentStatusChanged(t, status)
  \/ \E user \in Principals :
       Cardinality(DOMAIN documents) < MaxGateDocs /\ createDocument(user, TRUE, Null)
  \/ \E user \in Principals : getDocumentById(user, "d1")
  \/ \E r \in TeamReqs, user \in Principals, email \in TeamEmails :
       inviteCheck(r, user, email, "VIEWER")
  \/ \E r \in TeamReqs : inviteCreate(r)

SpecGate == Init /\ [][NextGate]_vars

\* ===================================================== roleGuard on /documents
\* req.user of a member that has switched to tenant T1 with the role of its
\* membership, next to the owners in their own tenants
RolePrincipals ==
  Principals \cup {[id |-> "u2", tenantId |-> "T1", role |-> role] : role \in {"MANAGER", "VIEWER"}}

\* the routes of document.route.js that write, and the roles they name
WritingRoutes ==
  {"createDocument", "updateDocument", "inviteSigners", "cancelDocument", "expireDocument",
   "applyPades"}
allowedRoles(route) ==
  IF route \in WritingRoutes THEN {"ADMIN", "MANAGER"} ELSE {"ADMIN", "MANAGER", "VIEWER"}

\* a guard that lets every authenticated principal through
roleGuard_Everyone(allowed, user) == TRUE

\* roleGuard: SUPER_ADMIN always passes, the others when their role is listed
roleGuard(allowed, user) == user.role = "SUPER_ADMIN" \/ user.role \in allowed

\* a request reaches a route behind authGuard: roleGuard answers 403 or calls
\* next() with req.user
routeDocument(route, user, d) ==
  /\ docLast' = DocAnswer(route, user, d,
                          IF roleGuard(allowedRoles(route), user) THEN "next" ELSE "403",
                          Some(user))
  /\ UNCHANGED documents
  /\ ReadFrame

\* the controller of the route runs for the request that roleGuard let through
Admitted(route) == docLast.status = "next" /\ docLast.op = route
AdmittedUser    == docLast.body[1]

NextRoles ==
  \/ \E route \in WritingRoutes \cup {"getDocumentById"}, user \in RolePrincipals :
       routeDocument(route, user, "d1")
  \/ /\ Admitted("createDocument")
     /\ Cardinality(DOMAIN documents) < MaxRoleDocs
     /\ createDocument(AdmittedUser, TRUE, Null)
  \/ Admitted("getDocumentById") /\ getDocumentById(AdmittedUser, docLast.docId)
  \/ Admitted("updateDocument") /\ updateDocument(AdmittedUser, docLast.docId, Some(0))
  \/ /\ Admitted("inviteSigners") /\ FindDocument(docLast.docId, AdmittedUser)
     /\ addSignersToDocument(docLast.docId)
  \/ \E st \in {"CANCELLED", "EXPIRED"} :
       /\ Admitted(IF st = "CANCELLED" THEN "cancelDocument" ELSE "expireDocument")
       /\ FindDocument(docLast.docId, AdmittedUser)
       /\ changeDocumentStatus(docLast.docId, st)
  \/ /\ Admitted("applyPades") /\ FindDocument(docLast.docId, AdmittedUser)
     /\ finalizeWithPades(docLast.docId)
  \/ \E route \in MutatingRoutes :
       Admitted(route) /\ documentNotFound(route, AdmittedUser, docLast.docId)

SpecRoles == Init /\ [][NextRoles]_vars

\* ================================================================ /folders
\* ids of the folders in the order in which they are created
FolderIds == <<"f1", "f2", "f3">>

FolderFrame ==
  UNCHANGED <<clock, documents, signers, shareTokens, certificates, auditLog, files,
              stampRuns, ownerOps, reqs, tamper, otpCodes, otpReqs, members, sessions, held,
              spent, authOps, authLast, tenantRows, userRows, memberRows, teamReqs,
              refreshReqs, passwordHashes, resetCodes, uploads>>

\* Folder.findOne({ where: { id, tenantId: user.tenantId } })
FindFolder(f, user) == f \in DOMAIN folders /\ folders[f].tenantId = user.tenantId

\* createFolder: a parent, when given, must be a folder of the user's tenant
createFolder(user, parentId) ==
  /\ Len(folders) < Len(FolderIds)
  /\ LET f == FolderIds[Len(folders) + 1]
     IN  IF parentId # Null /\ ~FindFolder(parentId[1], user)
         THEN /\ docLast' = DocAnswer("createFolder", user, f, "500", Null)
              /\ UNCHANGED folders
         ELSE /\ folders' = Append(folders, [tenantId |-> user.tenantId, parentId |-> parentId])
              /\ docLast' = DocAnswer("createFolder", user, f, "201", Null)
  /\ UNCHANGED folderOf
  /\ FolderFrame

\* moveItem: the target, when it is not the root, must be a folder of the
\* user's tenant; a document takes it as folderId; a folder takes it as
\* parentId unless the target is the folder itself
moveItem(user, itemId, itemType, targetFolderId) ==
  /\ LET item == IF itemType = "FOLDER" THEN FolderIds[itemId] ELSE itemId
     IN  IF targetFolderId # Null /\ ~FindFolder(targetFolderId[1], user)
         THEN /\ docLast' = DocAnswer("moveItem", user, item, "500", Null)
              /\ UNCHANGED <<folders, folderOf>>
         ELSE IF itemType = "DOCUMENT"
         THEN IF FindDocument(itemId, user)
              THEN /\ folderOf' = [d \in DOMAIN folderOf \cup {itemId} |->
                                     IF d = itemId THEN targetFolderId ELSE folderOf[d]]
                   /\ docLast' = DocAnswer("moveItem", user, item, "200", Null)
                   /\ UNCHANGED folders
              ELSE /\ docLast' = DocAnswer("moveItem", user, item, "500", Null)
                   /\ UNCHANGED <<folders, folderOf>>
         ELSE IF ~FindFolder(itemId, user) \/ targetFolderId = Some(itemId)
              THEN /\ docLast' = DocAnswer("moveItem", user, item, "500", Null)
                   /\ UNCHANGED <<folders, folderOf>>
              ELSE /\ folders' = [folders EXCEPT ![itemId].parentId = targetFolderId]
                   /\ docLast' = DocAnswer("moveItem", user, item, "200", Null)
                   /\ UNCHANGED folderOf
  /\ FolderFrame

\* folder ids as the clients send them: positions in the Folders table
FolderRefs == 1..Len(FolderIds)
ParentRefs == {Null} \cup {Some(f) : f \in FolderRefs}

NextFolders ==
  \/ \E user \in Principals :
       Cardinality(DOMAIN documents) < MaxRoleDocs /\ createDocument(user, TRUE, Null)
  \/ \E user \in Principals, parentId \in ParentRefs : createFolder(user, parentId)
  \/ \E user \in Principals, f \in FolderRefs, target \in ParentRefs :
       moveItem(user, f, "FOLDER", target)
  \/ \E user \in Principals, target \in ParentRefs : moveItem(user, "d1", "DOCUMENT", target)

SpecFolders == Init /\ [][NextFolders]_vars

\* ============================================= POST /documents/validate-file
\* validatePdfIntegrity: the answers it can give for a buffer.  Document.findOne
\* on sha256, a column without unique index, returns any of the rows with the
\* hash; the document of the answer stands for its title
validatePdfIntegrity(fileBuffer) ==
  LET hash  == SHA256(fileBuffer)
      found == {d \in DOMAIN documents : documents[d].sha256 = hash}
  IN  IF found = {}
      THEN {[valid |-> FALSE, hashCalculated |-> hash, reason |-> "NOT_FOUND", document |-> Null]}
      ELSE {IF documents[d].status # "SIGNED"
            THEN [valid |-> FALSE, hashCalculated |-> hash, reason |-> "NOT_SIGNED",
                  document |-> Null]
            ELSE [valid |-> TRUE, hashCalculated |-> hash, reason |-> "none",
                  document |-> Some(d)] : d \in found}

\* ================================================================== claims
DocIds == DOMAIN documents
Settled == \A r \in Reqs : reqs[r].pc \in {"idle", "done"}
EverySignerSigned(d) ==
  /\ SignersOf(signers, d) # {}
  /\ \A s \in SignersOf(signers, d) : signers[s].status = "SIGNED"
CertsOf(d) == {c \in certificates : c.documentId = d}

\* C1: whenever a document has status SIGNED, every signer of that document
\* has status SIGNED.
C1_SignedDocHasAllSignersSigned ==
  \A d \in DocIds :
    documents[d].status = "SIGNED" =>
      \A s \in SignersOf(signers, d) : signers[s].status = "SIGNED"

\* C2: with no owner operation interfering, the finalization block (stamp the
\* PDF, reseal the document, insert the certificate) runs exactly once for a
\* document: never twice, and once when the commits of all its signers have
\* been answered.
C2_FinalizationExactlyOnce ==
  \A d \in DocIds :
    ownerOps = 0 =>
      /\ stampRuns[d] <= 1
      /\ (Settled /\ EverySignerSigned(d)) => stampRuns[d] = 1

\* C3: of several commits for the same signer only one takes effect: the
\* audit log never holds a second SIGNED event of one signer.
SignedEvents(s) ==
  {i \in DOMAIN auditLog : auditLog[i].action = "SIGNED" /\ auditLog[i].actorId = Some(s)}
C3_OneSignedEventPerSigner ==
  \A s \in DOMAIN signers : Cardinality(SignedEvents(s)) <= 1

\* C4: a commit marks a signer SIGNED only if, when the commit is applied, the
\* signer is PENDING or VIEWED and the document is READY or PARTIALLY_SIGNED.
C4_CommitOnlyWhenOpen ==
  [][\A s \in DOMAIN signers :
       (signers'[s] # signers[s] /\ signers'[s].status = "SIGNED") =>
          /\ signers[s].status \in {"PENDING", "VIEWED"}
          /\ documents[signers[s].documentId].status \in {"READY", "PARTIALLY_SIGNED"}]_vars

\* C5: once every signer of a document has committed (no cancel, expire or
\* PAdES call having been made), the document is SIGNED, stored under the
\* '-signed' key with a sha256 other than that of the upload, and has exactly
\* one certificate.
C5_AllCommittedMeansSigned ==
  \A d \in DocIds :
    (Settled /\ ownerOps = 0 /\ EverySignerSigned(d)) =>
       /\ documents[d].status = "SIGNED"
       /\ documents[d].storageKey.sfx = <<"signed">>
       /\ documents[d].sha256 # SHA256(<<"pdf", d>>)
       /\ Cardinality(CertsOf(d)) = 1

\* C6: the status of a document changes only from READY or PARTIALLY_SIGNED to
\* SIGNED, CANCELLED or EXPIRED; a SIGNED, CANCELLED or EXPIRED document keeps
\* its status.
C6_StatusTransitions ==
  [][\A d \in DocIds :
       documents'[d].status # documents[d].status =>
          /\ documents[d].status \in {"READY", "PARTIALLY_SIGNED"}
          /\ documents'[d].status \in {"SIGNED", "CANCELLED", "EXPIRED"}]_vars

\* C7: a request with a raw token reaches a signer operation only if the hash
\* of the token matches a ShareToken row, now is not after expiresAt, the
\* signer is neither SIGNED nor DECLINED and the document is none of CANCELLED,
\* EXPIRED, SIGNED; otherwise it is answered 404 (no row) or 403 (expired, then
\* signer closed, then document closed) and no stored state changes.
C7_Found(tok)   == \E st \in shareTokens : st.tokenHash = SHA256(tok)
C7_Expired(tok) == \E st \in shareTokens : st.tokenHash = SHA256(tok) /\ clock > st.expiresAt
C7_SignerClosed(tok) ==
  \E st \in shareTokens : /\ st.tokenHash = SHA256(tok)
                          /\ signers[st.signerId].status \in {"SIGNED", "DECLINED"}
C7_DocClosed(tok) ==
  \E st \in shareTokens : /\ st.tokenHash = SHA256(tok)
                          /\ documents[st.documentId].status \in {"CANCELLED", "EXPIRED", "SIGNED"}
C7_TokenGate ==
  [][\A r \in Reqs :
       (reqs[r].pc = "idle" /\ reqs'[r].pc # "idle") =>
         LET tok == reqs'[r].token
             open == /\ C7_Found(tok) /\ ~C7_Expired(tok)
                     /\ ~C7_SignerClosed(tok) /\ ~C7_DocClosed(tok)
         IN  /\ reqs'[r].pc = "resolved" <=> open
             /\ reqs'[r].pc = "resolved" =>
                  /\ SHA256(tok) \in {st.tokenHash : st \in
                        {x \in shareTokens : x.signerId = reqs'[r].signerId
                                             /\ x.documentId = reqs'[r].docId}}
                  /\ reqs'[r].signer = Some(signers[reqs'[r].signerId])
                  /\ reqs'[r].document = Some(documents[reqs'[r].docId])
             /\ ~open =>
                  /\ reqs'[r].pc = "done"
                  /\ reqs'[r].resp =
                       IF ~C7_Found(tok) THEN "404"
                       ELSE IF C7_Expired(tok) THEN "403_expired"
                       ELSE IF C7_SignerClosed(tok) THEN "403_signer"
                       ELSE "403_document"
                  /\ UNCHANGED <<documents, signers, shareTokens, certificates,
                                 auditLog, files>>]_vars

\* C7 witness: one request was admitted, and after the document was closed a
\* later request with a stored, unexpired token of an open signer was refused
C7_Witness ==
  \E r, q \in Reqs :
    /\ reqs[r].pc = "resolved"
    /\ reqs[q].pc = "done" /\ reqs[q].resp = "403_document"
    /\ C7_Found(reqs[q].token) /\ ~C7_Expired(reqs[q].token)

\* C8: every audit row that has an earlier row of the same entity carries the
\* eventHash of its immediate predecessor as prevEventHash, so no two rows of
\* one entity carry the same prevEventHash.
Earlier(j) == {i \in DOMAIN auditLog : i < j /\ auditLog[i].entityId = auditLog[j].entityId}
Max(S) == CHOOSE x \in S : \A y \in S : y <= x
C8_ChainLinked ==
  /\ \A j \in DOMAIN auditLog :
       Earlier(j) # {} => auditLog[j].prevEventHash = auditLog[Max(Earlier(j))].eventHash
  /\ \A i, j \in DOMAIN auditLog :
       (i # j /\ auditLog[i].entityId = auditLog[j].entityId)
          => auditLog[i].prevEventHash # auditLog[j].prevEventHash

\* C9: for every stored audit row, the hash recomputed from the stored row
\* (prevEventHash, the stored fields, createdAt) is the stored eventHash.
C9_HashRecomputes ==
  \A i \in DOMAIN auditLog : RecomputeHash(auditLog[i]) = auditLog[i].eventHash

\* C10: for a document whose audit rows were written by the system's own
\* operations, each of them recomputing to its stored hash, the verification
\* of the chain returns isValid with the count of the collected rows.
C10_VerifyChainValid ==
  \A d \in DocIds :
    (\A i \in Collected(d) : RecomputeHash(auditLog[i]) = auditLog[i].eventHash) =>
      \A ord \in ChainOrders(d) :
        /\ verifyAuditLogChain(ord).isValid
        /\ verifyAuditLogChain(ord).count = Cardinality(Collected(d))

\* C13: an audit event is stored if and only if the state change it records
\* is stored: a document has its STORAGE_UPLOADED row, a signer its INVITED
\* row, a VIEWED or SIGNED signer the VIEWED or SIGNED row of that signer, a
\* CANCELLED or EXPIRED document the STATUS_CHANGED row to that status, and a
\* VIEWED or SIGNED row belongs to a signer that is no longer PENDING.
HasRow(action, etype, eid, actor) ==
  \E i \in DOMAIN auditLog :
    /\ auditLog[i].action = action /\ auditLog[i].entityType = etype
    /\ auditLog[i].entityId = eid /\ auditLog[i].actorId = actor
C13_AuditIffStateChange ==
  /\ \A d \in DocIds :
       /\ HasRow("STORAGE_UPLOADED", "DOCUMENT", d, Some(OwnerId))
       /\ documents[d].status \in {"CANCELLED", "EXPIRED"} =>
            \E i \in DOMAIN auditLog :
              /\ auditLog[i].action = "STATUS_CHANGED" /\ auditLog[i].entityId = d
              /\ auditLog[i].payloadJson = <<Entry("newStatus", documents[d].status)>>
  /\ \A s \in DOMAIN signers :
       /\ HasRow("INVITED", "SIGNER", s, Some(OwnerId))
       /\ signers[s].status \in {"VIEWED", "SIGNED"} =>
            HasRow(signers[s].status, "DOCUMENT", signers[s].documentId, Some(s))
  /\ \A i \in DOMAIN auditLog :
       auditLog[i].action \in {"VIEWED", "SIGNED"} =>
         signers[auditLog[i].actorId[1]].status # "PENDING"

\* C11: when one stored row of a document's chain, which verified as valid,
\* has had one hashed column altered in storage, the verification answers
\* isValid false with reason Hash Mismatch and that row as brokenEventId.
C11_AlteredRowReported ==
  (tamper # Null /\ tamper[1].kind = "alter" /\ tamper[1].wasValid) =>
     \A ord \in ChainOrders(tamper[1].doc) :
        LET v == verifyAuditLogChain(ord)
        IN  ~v.isValid /\ v.reason = "Hash Mismatch" /\ v.brokenEventId = tamper[1].id

\* C12: when a row was removed from one entity's chain of a document, or two
\* rows of it were reordered, the chain having verified as valid before, the
\* verification answers isValid false.
C12_RemovedOrReorderedDetected ==
  (tamper # Null /\ tamper[1].kind \in {"delete", "swap"} /\ tamper[1].wasValid) =>
     \A ord \in ChainOrders(tamper[1].doc) : ~verifyAuditLogChain(ord).isValid

\* C14: a code that was accepted for a signer, when it is submitted again for
\* that signer after the answer, is refused with the expired / not found
\* error.
C14_AcceptedCodeRefusedAfterwards ==
  \A r \in OtpReqs :
    (otpReqs[r].op = "verify" /\ otpReqs[r].replay /\ otpReqs[r].pc = "done") =>
       otpReqs[r].resp = "otp_expired"

\* C15: whenever OTP_VERIFIED has been recorded for an OtpCode row, that row
\* is deleted: in no state, also after a failure of the deletion, is the
\* event stored while the verified row still exists.
C15_VerifiedRowIsGone ==
  \A r \in OtpReqs :
    (otpReqs[r].op = "verify" /\
       (otpReqs[r].pc = "verified" \/ otpReqs[r].resp \in {"200", "500_destroy"})) =>
       ~otpCodes[otpReqs[r].rec].live

\* C16: verifyOtp does not accept when it found no OtpCode or the one it
\* found has expiresAt before now (expired error), nor when the submitted code
\* does not match the stored hash (invalid error); a refused attempt appends
\* one OTP_FAILED event of the signer and nothing else, and deletes no row
\* (an attempt whose append the database rejects is answered 500 and stores
\* nothing); only an accepted attempt is answered 200.
C16_Absent(r)  == otpReqs[r].rec = 0
C16_Expired(r) == otpReqs[r].rec # 0 /\ otpCodes[otpReqs[r].rec].expiresAt < clock
C16_Wrong(r)   ==
  /\ otpReqs[r].rec # 0
  /\ otpCodes[otpReqs[r].rec].codeHash # bcryptHash(otpReqs[r].code)
C17_SpentTokenRefused ==
  [][(authOps' # authOps /\ authLast'.op = "refresh" /\ authLast'.presented \in spent) =>
        authLast'.resp = "401"]_vars

\* C18: a successful refresh issues tokens for the tenantId carried by the
\* presented refresh token; the role is SUPER_ADMIN or ADMIN when that tenant
\* is the user's own, else the role of the user's TenantMember row in it.
C18_OwnRole(u) == IF UserRow(u).role = "SUPER_ADMIN" THEN "SUPER_ADMIN" ELSE "ADMIN"
C18_RefreshKeepsTenant ==
  [][(authOps' # authOps /\ authLast'.op = "refresh" /\ authLast'.resp = "200") =>
        LET u == authLast'.userId
            t == authLast'.presented.tenantId
        IN  /\ authLast'.presented.userId = u
            /\ authLast'.tenantId = t
            /\ authLast'.refresh.tenantId = t
            /\ authLast'.refresh.userId = u
            /\ IF t = UserRow(u).tenantId
               THEN authLast'.role = C18_OwnRole(u)
               ELSE /\ <<t, u>> \in DOMAIN members
                    /\ authLast'.role = members[<<t, u>>].role]_vars

\* C18 witness: a refresh succeeded for a tenant that is not the user's own
C18_Witness ==
  /\ authLast.op = "refresh" /\ authLast.resp = "200"
  /\ authLast.tenantId # UserRow(authLast.userId).tenantId
  /\ authLast.tenantId = authLast.presented.tenantId

C20_LoginThenSwitch ==
  /\ authLast.op = "switch" /\ authLast.resp = "200"
  /\ authLast.target = UserRow(authLast.userId).tenantId
  /\ authLast.prev.op = "login" /\ authLast.prev.resp = "200"
  /\ authLast.prev.userId = authLast.userId
C20_SwitchToOwnTenantAfterLogin ==
  C20_LoginThenSwitch =>
    /\ authLast.tenantId = authLast.prev.tenantId
    /\ authLast.role = authLast.prev.role

\* C20 witness: the super admin logged in and then switched to the own tenant
C20_Witness == C20_LoginThenSwitch /\ authLast.userId = "u2" /\ authLast.role = "SUPER_ADMIN"

\* C21: logout destroys the Sessions created for the presented refresh token
\* and no other Session, and is answered 200; when no such Session exists
\* (also on a repeated logout) it is answered 200 and the Sessions stay as
\* they are.
C21_Others(u, tok) ==
  LET Other(row) == ~(row.userId = u /\ row.issuedFor = tok)
  IN  SelectSeq(sessions, Other)
C21_LogoutDeletesOnlyMatching ==
  [][(authOps' # authOps /\ authLast'.op = "logout") =>
        /\ authLast'.resp = "200"
        /\ sessions' = C21_Others(authLast'.userId, authLast'.presented)]_vars

\* C30: for every Document row with a storageKey, the SHA-256 of the bytes
\* stored under that key equals the row's sha256, in every state: after the
\* upload, after finalizations (also concurrent ones) and after a signature
\* commit that rolled back.
C30_StoredFileMatchesSha ==
  \A d \in DOMAIN documents :
    /\ documents[d].storageKey \in DOMAIN files
    /\ SHA256(files[documents[d].storageKey]) = documents[d].sha256

\* C22: a request of a principal to any document route for a document of
\* another tenant is answered 404 with the body of a request for an id that
\* does not exist, and leaves the document, its signers, its file and the
\* audit log unchanged.
C22_ForeignDocumentIs404 ==
  [][(/\ docLast'.n # docLast.n
      /\ docLast'.docId \in DOMAIN documents
      /\ documents[docLast'.docId].tenantId # docLast'.tenantId) =>
        /\ docLast'.status = "404"
        /\ docLast'.body = Null
        /\ UNCHANGED <<documents, signers, files, auditLog>>]_vars

\* C25: an upload of a tenant that holds fewer documents than the
\* documentLimit of its plan creates the document (so the one that makes the
\* count reach the limit succeeds); an upload of a tenant that holds
\* documentLimit documents is answered 403 and creates no Document row, no
\* file and no audit event.
C25_DocumentLimit ==
  [][(docLast'.n # docLast.n /\ docLast'.op = "createDocument") =>
        LET t == docLast'.tenantId
            d == docLast'.docId
        IN  /\ DocumentCount(t) < PlanOf(t).documentLimit =>
                 /\ docLast'.status = "201"
                 /\ DOMAIN documents' = DOMAIN documents \cup {d}
                 /\ d \notin DOMAIN documents
                 /\ documents'[d].tenantId = t
            /\ DocumentCount(t) >= PlanOf(t).documentLimit =>
                 /\ docLast'.status = "403"
                 /\ UNCHANGED <<documents, files, auditLog>>]_vars

\* C25 witness: a tenant holds as many documents as its plan allows and its
\* next upload was answered 403
C25_Witness ==
  /\ docLast.op = "createDocument" /\ docLast.status = "403"
  /\ docLast.tenantId \in DOMAIN tenantRows
  /\ DocumentCount(docLast.tenantId) = PlanOf(docLast.tenantId).documentLimit

\* C23: when a registration or an invite commits, the ACTIVE users of the
\* affected tenant plus its PENDING or ACTIVE TenantMember rows are at most
\* the userLimit of the tenant's plan.
C23_Occupied(users, rows, t) ==
  Cardinality({i \in DOMAIN users : users[i].tenantId = t /\ users[i].status = "ACTIVE"})
  + Cardinality({i \in DOMAIN rows :
                   rows[i].tenantId = t /\ rows[i].status \in {"PENDING", "ACTIVE"}})
C23_OccupancyWithinUserLimit ==
  [][\A r \in TeamReqs :
       (teamReqs[r].pc # "done" /\ teamReqs'[r].pc = "done" /\ teamReqs'[r].resp = "201") =>
          C23_Occupied(userRows', memberRows', teamReqs'[r].tenantId)
            <= Plans[tenantRows'[teamReqs'[r].tenantId].planId].userLimit]_vars

\* C24: an invite of a tenant whose occupancy is below the userLimit of its
\* plan, for a registered account that is no ACTIVE member, is accepted; an
\* invite of a tenant whose occupancy has reached the userLimit is answered
\* 403 and creates or changes no TenantMember row.
C24_UserLimitOnInvite ==
  [][\A r \in TeamReqs :
       (teamReqs[r].pc = "idle" /\ teamReqs'[r].op = "invite") =>
          LET t == teamReqs'[r].tenantId
          IN  (~SubscriptionIrregular(t) /\ Occupancy(t) >= PlanOf(t).userLimit) =>
                 /\ teamReqs'[r].pc = "done"
                 /\ teamReqs'[r].resp = "403"
                 /\ UNCHANGED memberRows]_vars

\* C26: while a tenant is on a paid plan with subscriptionStatus OVERDUE,
\* every upload of the tenant and every invite that arrives for it fails and
\* changes no document, file, audit entry or TenantMember row, and a read of
\* a document of the tenant is answered 200.
C26_Overdue(t) ==
  PlanOf(t).price > 0 /\ tenantRows[t].subscriptionStatus = Some("OVERDUE")
C26_OverdueBlocksWritesOnly ==
  [][/\ (docLast'.n # docLast.n /\ C26_Overdue(docLast'.tenantId)) =>
          /\ docLast'.op = "createDocument" =>
               /\ docLast'.status \notin {"200", "201"}
               /\ UNCHANGED <<documents, files, auditLog>>
          /\ (docLast'.op = "getDocumentById" /\ FindDocument(docLast'.docId, Principal(docLast'.user))) =>
               /\ docLast'.status = "200"
               /\ docLast'.body = Some(documents[docLast'.docId])
     /\ \A r \in TeamReqs :
          (/\ teamReqs[r].pc = "idle" /\ teamReqs'[r].op = "invite"
           /\ C26_Overdue(teamReqs'[r].tenantId)) =>
             /\ teamReqs'[r].pc = "done"
             /\ teamReqs'[r].resp \notin {"200", "201"}
             /\ UNCHANGED memberRows]_vars

\* C26 witness: the upload of an overdue tenant that holds fewer documents
\* than its plan allows was refused, and so was an invite of that tenant for
\* a registered account
C26_Witness ==
  /\ docLast.op = "createDocument" /\ docLast.status = "500"
  /\ docLast.tenantId \in DOMAIN tenantRows
  /\ C26_Overdue(docLast.tenantId)
  /\ DocumentCount(docLast.tenantId) = 1
  /\ ~documentLimitReached(docLast.tenantId)
  /\ \E r \in TeamReqs :
       /\ teamReqs[r].op = "invite" /\ teamReqs[r].pc = "done" /\ teamReqs[r].resp = "500"
       /\ teamReqs[r].tenantId = docLast.tenantId
       /\ UsersWithEmail(teamReqs[r].email) # {}
       /\ MembersAt(teamReqs[r].tenantId, teamReqs[r].email) = {}
       /\ Occupancy(docLast.tenantId) < PlanOf(docLast.tenantId).userLimit

\* C27: the upload of a principal with role SUPER_ADMIN is never refused for
\* the subscription of its tenant: it is answered 403 when the tenant holds
\* documentLimit documents and is accepted otherwise; an invite of a
\* SUPER_ADMIN is refused at the userLimit and never for the subscription.
C27_SuperAdminBypass ==
  [][/\ (/\ docLast'.n # docLast.n /\ docLast'.op = "createDocument"
         /\ docLast'.tenantId \in DOMAIN tenantRows
         /\ Principal(docLast'.user).role = "SUPER_ADMIN") =>
          docLast'.status = IF documentLimitReached(docLast'.tenantId) THEN "403" ELSE "201"
     /\ \A r \in TeamReqs :
          (/\ teamReqs[r].pc = "idle" /\ teamReqs'[r].op = "invite"
           /\ Principal(teamReqs'[r].by).role = "SUPER_ADMIN"
           /\ Occupancy(teamReqs'[r].tenantId) < PlanOf(teamReqs'[r].tenantId).userLimit
           /\ UsersWithEmail(teamReqs'[r].email) # {}
           /\ \A i \in MembersAt(teamReqs'[r].tenantId, teamReqs'[r].email) :
                memberRows[i].status # "ACTIVE") =>
             teamReqs'[r].pc = "inviting"]_vars

\* C28: no two User rows share an email and no two TenantMember rows share
\* the pair (tenantId, email).
C28_UniqueEmails ==
  /\ \A i, j \in DOMAIN userRows : userRows[i].email = userRows[j].email => i = j
  /\ \A i, j \in DOMAIN memberRows :
       (memberRows[i].tenantId = memberRows[j].tenantId
        /\ memberRows[i].email = memberRows[j].email) => i = j

\* C28 witness: a registration has passed its e-mail check and waits for its
\* transaction while another one with the same e-mail has committed
C28_Witness ==
  \E r1, r2 \in TeamReqs :
    /\ teamReqs[r1].pc = "registering"
    /\ teamReqs[r2].op = "register" /\ teamReqs[r2].resp = "201"
    /\ teamReqs[r1].email = teamReqs[r2].email

C31_ValidIffSigned ==
  \A d \in DOMAIN documents :
    documents[d].storageKey \in DOMAIN files =>
      \A res \in validatePdfIntegrity(files[documents[d].storageKey]) :
        /\ (res.valid /\ res.document = Some(d)) <=> documents[d].status = "SIGNED"
        /\ ~res.valid => res.reason \in {"NOT_FOUND", "NOT_SIGNED"}

\* C32: for every share token that was generated, a ShareToken row holds its
\* SHA-256 hash, and no hash column of a ShareToken, Signer, AuditLog, Session
\* or OtpCode row holds the token itself, nor does an audit payload have a
\* token property.
C32_OnlyTokenHashStored ==
  \A s \in DOMAIN signers :
    LET token == Token(s)
    IN  /\ \E st \in shareTokens : st.tokenHash = SHA256(token) /\ st.signerId = s
        /\ \A st \in shareTokens : st.tokenHash # token
        /\ \A x \in DOMAIN signers : signers[x].signatureHash # Some(token)
        /\ \A i \in DOMAIN auditLog :
             /\ auditLog[i].eventHash # token
             /\ auditLog[i].prevEventHash # token
             /\ \A k \in DOMAIN auditLog[i].payloadJson :
                  auditLog[i].payloadJson[k].k # "token"
        /\ \A i \in DOMAIN sessions : sessions[i].refreshTokenHash # token
        /\ \A i \in DOMAIN otpCodes : otpCodes[i].codeHash # token

\* C32 witness: two share tokens were generated and one of them was presented
\* and resolved to its row
C32_Witness ==
  /\ Cardinality(DOMAIN signers) = 2
  /\ \E r \in Reqs : reqs[r].pc = "resolved" /\ reqs[r].token = Token(reqs[r].signerId)

\* C33: a step of the document routes changes a Document, Signer or ShareToken
\* row or a stored file only for a request that roleGuard let through for a
\* principal with role SUPER_ADMIN, ADMIN or MANAGER; a request of a VIEWER
\* to a writing route is answered 403, and a request answered 403 changes
\* nothing.
C33_ViewerIsReadOnly ==
  [][/\ (documents' # documents \/ signers' # signers \/ shareTokens' # shareTokens
         \/ files' # files) =>
          /\ docLast.status = "next"
          /\ docLast.op \in WritingRoutes
          /\ docLast.body[1].role \in {"SUPER_ADMIN", "ADMIN", "MANAGER"}
     /\ (docLast'.n # docLast.n /\ docLast'.op \in WritingRoutes /\ docLast'.body # Null
         /\ docLast'.status \in {"next", "403"}) =>
          /\ docLast'.body[1].role = "VIEWER" => docLast'.status = "403"
          /\ docLast'.status = "403" =>
               UNCHANGED <<documents, signers, shareTokens, files, auditLog, certificates>>]_vars

\* C33 witness: a VIEWER of the tenant of a document asked to cancel it and
\* was answered 403, after a MANAGER had added a signer to it
C33_Witness ==
  /\ docLast.op = "cancelDocument" /\ docLast.status = "403"
  /\ docLast.body # Null /\ docLast.body[1].role = "VIEWER"
  /\ FindDocument(docLast.docId, docLast.body[1])
  /\ DOMAIN signers # {}

\* C34: the parent relation of the folders has no cycle: no folder is reached
\* from itself by following parentId.
RECURSIVE C34_Reaches(_, _, _)
C34_Reaches(f, g, n) ==
  IF n = 0 \/ folders[f].parentId = Null THEN FALSE
  ELSE LET p == folders[f].parentId[1]
       IN  p = g \/ C34_Reaches(p, g, n - 1)
C34_NoFolderCycle ==
  \A f \in DOMAIN folders : ~C34_Reaches(f, f, Len(folders))

\* C35: of two refresh requests that present the same raw refresh token and
\* run at the same time, at most one is answered with new tokens.
C35_OneRefreshPerCredential ==
  \A r1, r2 \in RefreshReqs :
    (/\ r1 # r2
     /\ refreshReqs[r1].presented = refreshReqs[r2].presented
     /\ refreshReqs[r1].overlaps \/ refreshReqs[r2].overlaps
     /\ refreshReqs[r1].resp = "200")
    => refreshReqs[r2].resp # "200"

\* C36: a resetPassword call answered 200 stores the hash of the new password
\* and removes exactly the OtpCode row it used, in the same step; a call that
\* is refused leaves every password and every OtpCode row as they were; and
\* no step changes a password without removing an OtpCode row.
C36_ResetIsAtomic ==
  [][/\ (authOps' # authOps /\ authLast'.op = "resetPassword") =>
          IF authLast'.resp = "200"
          THEN LET u == authLast'.userId
                   i == ResetRecord(u, UserRow(u).email)
               IN  /\ i # 0
                   /\ resetCodes' = DropAt(resetCodes, i)
                   /\ \E p \in NewPasswords :
                        passwordHashes' = [passwordHashes EXCEPT ![u] = bcryptHash(p)]
          ELSE UNCHANGED <<passwordHashes, resetCodes>>
     /\ passwordHashes' # passwordHashes => Len(resetCodes') = Len(resetCodes) - 1]_vars

\* a reset that was refused, then one that was accepted
C36_Witness ==
  /\ authLast.op = "resetPassword" /\ authLast.resp = "200"
  /\ authLast.prev.op = "resetPassword" /\ authLast.prev.resp = "500"
  /\ passwordHashes[authLast.userId] = bcryptHash(<<"pw", "new">>)
  /\ resetCodes = <<>>

\* C37: a signer whose status is SIGNED keeps that status in every later step.
C37_SignedIsFinal ==
  [][\A s \in DOMAIN signers :
       signers[s].status = "SIGNED" =>
         (s \in DOMAIN signers' /\ signers'[s].status = "SIGNED")]_vars

\* C38: every pair of tokens issued by login, switch-tenant or refresh names a
\* tenant that is the user's own or in which the user has, at that moment, an
\* ACTIVE TenantMember row with the role of the tokens.
C38_IssuedForLiveMembership ==
  [][(/\ authOps' # authOps
      /\ authLast'.op \in {"login", "switch", "refresh"}
      /\ authLast'.resp = "200") =>
        LET u == authLast'.userId
            t == authLast'.tenantId
        IN  \/ t = UserRow(u).tenantId
            \/ /\ <<t, u>> \in DOMAIN members'
               /\ members'[<<t, u>>].status = "ACTIVE"
               /\ members'[<<t, u>>].role = authLast'.role]_vars

\* C40: the status of a TenantMember row becomes ACTIVE or DECLINED only from
\* PENDING: an invite that was answered is not flipped by a later answer.
C40_AnsweredInviteIsFinal ==
  [][\A i \in DOMAIN memberRows :
       (/\ memberRows'[i].status # memberRows[i].status
        /\ memberRows'[i].status \in {"ACTIVE", "DECLINED"})
       => memberRows[i].status = "PENDING"]_vars

\* C39: no tenant has more Document rows than the documentLimit of its plan.
C39_DocumentsWithinLimit ==
  \A t \in Tenants : DocumentCount(t) <= PlanOf(t).documentLimit

====
